---- MODULE Spec2Model ----
(***************************************************************************)
(* Model of the satisfactory_solver_2 core: the World (catalog) of         *)
(* resources and recipes, the Problem (rules and optimizations), the       *)
(* linear program that Problem::solve builds, the solve outcome, the       *)
(* rounded Factory and the NetResources report.                            *)
(*                                                                         *)
(* Numbers: the program works with f64.  Recipe rates, rule thresholds,    *)
(* objective coefficients, the coefficients of the linear program and      *)
(* every number the program computes (the rates of a loaded World, of a    *)
(* Factory, the net rates and contributions of NetResources) are f64 of    *)
(* the model: sign, odd significand, exponent, computed with IEEE 754      *)
(* rounding.  The texts of numbers (text fields, JSON files) are strings,  *)
(* written and read digit by digit as the program's libraries do.  The     *)
(* answer of the linear-program solver is an exact rational                *)
(* [n |-> numerator, d |-> denominator], d > 0, in lowest terms, and the   *)
(* program reads it as the nearest f64.                                    *)
(* Ids are zero-based as in the program; TLA+ sequences are one-based, so  *)
(* the element of id i is at position i + 1.                               *)
(***************************************************************************)
EXTENDS Integers, Sequences, FiniteSets, TLC

\* ------------------------------------------------------------------------
\* Bounds of the model
\* ------------------------------------------------------------------------

\* the most rules and optimizations, counted together, a Problem holds
MaxEntries == 3

\* ------------------------------------------------------------------------
\* Exact arithmetic
\* ------------------------------------------------------------------------

Abs(x) == IF x < 0 THEN -x ELSE x

Sign(x) == IF x < 0 THEN -1 ELSE IF x > 0 THEN 1 ELSE 0

RECURSIVE Gcd(_, _)
Gcd(a, b) == IF b = 0 THEN Abs(a) ELSE Gcd(b, a % Abs(b))

\* the rational n/d in lowest terms with a positive denominator
Rat(n, d) ==
    LET g == Gcd(n, d)
    IN  [n |-> Sign(d) * (n \div g), d |-> Abs(d) \div g]

RatOfInt(i) == [n |-> i, d |-> 1]

RatAdd(p, q) ==
    LET g == Gcd(p.d, q.d)
    IN  Rat(p.n * (q.d \div g) + q.n * (p.d \div g), (p.d \div g) * q.d)

RatMulInt(p, i) ==
    LET g == Gcd(i, p.d)
    IN  Rat(p.n * (i \div g), p.d \div g)

\* a/b <= c/d for b, d > 0, by integer parts and then by the reciprocals of
\* the fractional parts, so that no product is formed
RECURSIVE FractionLeq(_, _, _, _)
FractionLeq(a, b, c, d) ==
    IF a \div b # c \div d THEN a \div b < c \div d
    ELSE IF a % b = 0 THEN TRUE
    ELSE IF c % d = 0 THEN FALSE
    ELSE FractionLeq(d, c % d, b, a % b)

RatLeq(p, q) == FractionLeq(p.n, p.d, q.n, q.d)

RatAbs(p) == [n |-> Abs(p.n), d |-> p.d]

RECURSIVE SumSeq(_)
SumSeq(s) == IF s = <<>> THEN 0 ELSE Head(s) + SumSeq(Tail(s))

RECURSIVE RatSumSeq(_)
RatSumSeq(s) ==
    IF s = <<>> THEN RatOfInt(0) ELSE RatAdd(Head(s), RatSumSeq(Tail(s)))

\* ------------------------------------------------------------------------
\* Natural numbers of any size: the sequence of their digits in base LIMB,
\* lowest digit first, without leading zero digits (zero is <<>>).  TLC's
\* integers have 32 bits; the significands of f64 have 53.
\* ------------------------------------------------------------------------

LIMB == 2^15

\* a without the zero digits at its top
BigNorm(a) ==
    IF a = <<>> THEN a
    ELSE IF a[Len(a)] # 0 THEN a
    ELSE LET zeros == {i \in 1 .. Len(a) : \A j \in Len(a) - i + 1 .. Len(a) : a[j] = 0}
         IN  SubSeq(a, 1, Len(a) - Cardinality(zeros))

RECURSIVE BigOfNat(_)
BigOfNat(n) == IF n = 0 THEN <<>> ELSE <<n % LIMB>> \o BigOfNat(n \div LIMB)

BigDigit(a, i) == IF i <= Len(a) THEN a[i] ELSE 0

\* the digits low .. high of a + b + carry * LIMB^(low - 1) and the carry
\* out of them, by halves
RECURSIVE BigAddRange(_, _, _, _, _)
BigAddRange(a, b, low, high, carry) ==
    IF low = high
    THEN LET x == BigDigit(a, low) + BigDigit(b, low) + carry
         IN  << <<x % LIMB>>, x \div LIMB >>
    ELSE LET middle == (low + high) \div 2
             lower == BigAddRange(a, b, low, middle, carry)
         IN  IF lower[2] < 0 THEN lower
             ELSE LET upper == BigAddRange(a, b, middle + 1, high, lower[2])
                  IN  <<lower[1] \o upper[1], upper[2]>>

\* the digits of a range with the carry out of it, if any, on top
WithCarry(range) ==
    IF range[2] = 0 THEN range[1] ELSE Append(range[1], range[2])

BigAddCarry(a, b, carry) ==
    IF a = <<>> /\ b = <<>> THEN (IF carry = 0 THEN <<>> ELSE <<carry>>)
    ELSE WithCarry(BigAddRange(a, b, 1, IF Len(a) < Len(b) THEN Len(b) ELSE Len(a),
                               carry))

BigAdd(a, b) == BigAddCarry(a, b, 0)

\* the digits low .. high of a - b - borrow * LIMB^(low - 1) and the borrow
\* out of them, by halves
RECURSIVE BigSubRange(_, _, _, _, _)
BigSubRange(a, b, low, high, borrow) ==
    IF low = high
    THEN LET x == a[low] - BigDigit(b, low) - borrow
         IN  << <<IF x < 0 THEN x + LIMB ELSE x>>, IF x < 0 THEN 1 ELSE 0 >>
    ELSE LET middle == (low + high) \div 2
             lower == BigSubRange(a, b, low, middle, borrow)
         IN  IF lower[2] < 0 THEN lower
             ELSE LET upper == BigSubRange(a, b, middle + 1, high, lower[2])
                  IN  <<lower[1] \o upper[1], upper[2]>>

\* a - b for a >= b
BigSub(a, b) ==
    IF a = <<>> THEN a ELSE BigNorm(BigSubRange(a, b, 1, Len(a), 0)[1])

BigLess(a, b) ==
    \/ Len(a) < Len(b)
    \/ /\ Len(a) = Len(b)
       /\ \E i \in 1 .. Len(a) :
            a[i] < b[i] /\ \A j \in i + 1 .. Len(a) : a[j] = b[j]

\* the digits low .. high of a * digit + carry * LIMB^(low - 1) and the
\* carry out of them, by halves
RECURSIVE BigMulRange(_, _, _, _, _)
BigMulRange(a, digit, low, high, carry) ==
    IF low = high
    THEN LET x == a[low] * digit + carry
         IN  << <<x % LIMB>>, x \div LIMB >>
    ELSE LET middle == (low + high) \div 2
             lower == BigMulRange(a, digit, low, middle, carry)
         IN  IF lower[2] < 0 THEN lower
             ELSE LET upper == BigMulRange(a, digit, middle + 1, high, lower[2])
                  IN  <<lower[1] \o upper[1], upper[2]>>

\* a * digit + carry
BigMulDigit(a, digit, carry) ==
    IF a = <<>> THEN (IF carry = 0 THEN <<>> ELSE <<carry>>)
    ELSE WithCarry(BigMulRange(a, digit, 1, Len(a), carry))

\* a * LIMB^k
BigShlDigits(a, k) == IF a = <<>> THEN a ELSE [i \in 1 .. k |-> 0] \o a

\* a times the digits low .. high of b, by halves
RECURSIVE BigMulDigits(_, _, _, _)
BigMulDigits(a, b, low, high) ==
    IF low = high THEN BigNorm(BigMulDigit(a, b[low], 0))
    ELSE LET middle == (low + high) \div 2
         IN  BigAdd(BigMulDigits(a, b, low, middle),
                    BigShlDigits(BigMulDigits(a, b, middle + 1, high),
                                 middle + 1 - low))

BigMul(a, b) ==
    IF a = <<>> \/ b = <<>> THEN <<>> ELSE BigMulDigits(a, b, 1, Len(b))

\* a * 2^k
BigShl(a, k) == BigShlDigits(BigMulDigit(a, 2^(k % 15), 0), k \div 15)

\* a \div 2^k
BigShr(a, k) ==
    IF Len(a) <= k \div 15 THEN <<>>
    ELSE LET kept == SubSeq(a, k \div 15 + 1, Len(a))
             low == 2^(k % 15)
             high == 2^(15 - (k % 15))
         IN  BigNorm([i \in 1 .. Len(kept) |->
                kept[i] \div low
                    + (IF i < Len(kept) THEN (kept[i + 1] % low) * high ELSE 0)])

RECURSIVE IntBitLen(_)
IntBitLen(n) == IF n = 0 THEN 0 ELSE 1 + IntBitLen(n \div 2)

\* the number of binary digits of a
BigBitLen(a) == IF a = <<>> THEN 0 ELSE 15 * (Len(a) - 1) + IntBitLen(a[Len(a)])

\* the binary digit of a at position i, counted from 0
BigBit(a, i) ==
    IF i \div 15 >= Len(a) THEN 0 ELSE (a[i \div 15 + 1] \div 2^(i % 15)) % 2

\* the largest digit d in low .. high with b * d <= r, given b * low <= r
RECURSIVE BigQuotientDigit(_, _, _, _)
BigQuotientDigit(r, b, low, high) ==
    IF low = high THEN low
    ELSE LET middle == (low + high + 1) \div 2
         IN  IF BigLess(r, BigMulDigit(b, middle, 0))
             THEN BigQuotientDigit(r, b, low, middle - 1)
             ELSE BigQuotientDigit(r, b, middle, high)

\* the digits of r from the place of the leading digit of b upwards, as
\* one integer, for r < b * LIMB
Leading(r, b) ==
    (IF Len(r) > Len(b) THEN r[Len(b) + 1] * LIMB ELSE 0)
        + (IF Len(r) >= Len(b) THEN r[Len(b)] ELSE 0)

\* <<the digit r \div b, the remainder>>, for r < b * LIMB; the leading
\* digits of r and b bound the digit
BigDivStep(r, b, digit) ==
    << <<digit>>, BigSub(r, BigNorm(BigMulDigit(b, digit, 0))) >>

BigDivDigitOf(r, b, leading) ==
    BigDivStep(r, b,
               BigQuotientDigit(r, b, leading \div (b[Len(b)] + 1),
                                IF leading \div b[Len(b)] < LIMB
                                THEN leading \div b[Len(b)] ELSE LIMB - 1))

BigDivDigit(r, b) == BigDivDigitOf(r, b, Leading(r, b))

\* long division of the digits high down to low of a, with the remainder of
\* the digits above them: <<these digits of the quotient, remainder>>, by
\* halves
RECURSIVE BigDivRange(_, _, _, _, _)
BigDivRange(a, b, high, low, remainder) ==
    IF low = high THEN BigDivDigit(BigNorm(<<a[low]>> \o remainder), b)
    ELSE LET upper == BigDivRange(a, b, high, (low + high + 1) \div 2, remainder)
         IN  IF Len(upper[2]) < 0 THEN upper
             ELSE LET lower == BigDivRange(a, b, (low + high + 1) \div 2 - 1, low,
                                           upper[2])
                  IN  <<lower[1] \o upper[1], lower[2]>>

BigDivAll(a, b) == BigDivRange(a, b, Len(a), 1, <<>>)

\* the division of a * 2^shift by b * 2^shift, as the division of a by b
BigDivBy(division, shift) ==
    <<BigNorm(division[1]), BigShr(division[2], shift)>>

\* <<quotient, remainder>> of a by b # 0; both are first doubled until the
\* leading digit of b is LIMB \div 2 or more, which leaves few candidates
\* for each digit of the quotient
BigDivShifted(a, b, shift) ==
    BigDivBy(BigDivAll(BigShl(a, shift), BigShl(b, shift)), shift)

BigDivMod(a, b) ==
    IF a = <<>> THEN <<a, a>>
    ELSE BigDivShifted(a, b, 15 - IntBitLen(b[Len(b)]))

\* ------------------------------------------------------------------------
\* f64: the value (-1)^neg * m * 2^e with m odd, or m = 0; the infinities;
\* NaN.  Every operation gives the f64 nearest to the exact result, ties to
\* the even significand, as IEEE 754 arithmetic does.
\* ------------------------------------------------------------------------

\* f64::MANTISSA_DIGITS
MANTISSA_DIGITS == 53

\* f64::MAX_EXP
MAX_EXP == 1024

\* f64::MIN_EXP
MIN_EXP == -1021

Finite(neg, m, e) == [kind |-> "finite", neg |-> neg, m |-> m, e |-> e]

Infinite(neg) == [kind |-> "inf", neg |-> neg, m |-> <<>>, e |-> 0]

NAN == [kind |-> "nan", neg |-> FALSE, m |-> <<>>, e |-> 0]

Zero(neg) == Finite(neg, <<>>, 0)

\* the number of times two divides the digit d # 0
RECURSIVE TrailingZeros(_)
TrailingZeros(d) == IF d % 2 = 1 THEN 0 ELSE 1 + TrailingZeros(d \div 2)

\* m * 2^e with the factors of two moved from m into e
Odd(neg, m, e) ==
    IF m = <<>> THEN Zero(neg)
    ELSE LET zeros == Cardinality({i \in 1 .. Len(m) : \A j \in 1 .. i : m[j] = 0})
             twos == TrailingZeros(m[zeros + 1])
         IN  Finite(neg, BigShr(SubSeq(m, zeros + 1, Len(m)), twos),
                    e + 15 * zeros + twos)

\* how many binary digits of m * 2^e a significand cannot hold: those past
\* the 53rd, and those below the last place of the subnormal f64
F64Shift(m, e) ==
    IF BigBitLen(m) - MANTISSA_DIGITS > MIN_EXP - MANTISSA_DIGITS - e
    THEN BigBitLen(m) - MANTISSA_DIGITS
    ELSE MIN_EXP - MANTISSA_DIGITS - e

\* kept goes up by one when more than half a last place was dropped, and on
\* a half when kept is odd (or the half is exceeded by what inexact stands
\* for)
F64RoundUp(kept, dropped, half, inexact) ==
    IF \/ BigLess(half, dropped)
       \/ dropped = half /\ (inexact \/ BigBit(kept, 0) = 1)
    THEN BigAddCarry(kept, <<>>, 1)
    ELSE kept

F64RoundKept(m, inexact, shift, kept) ==
    F64RoundUp(kept, BigSub(m, BigShl(kept, shift)), BigShl(<<1>>, shift - 1),
               inexact)

F64Rounded(neg, m, e, inexact, shift) ==
    Odd(neg,
        IF shift <= 0 THEN m ELSE F64RoundKept(m, inexact, shift, BigShr(m, shift)),
        IF shift <= 0 THEN e ELSE e + shift)

\* past the largest f64 lies infinity
F64Overflow(x) ==
    IF BigBitLen(x.m) + x.e > MAX_EXP THEN Infinite(x.neg) ELSE x

\* the f64 nearest to (-1)^neg * m * 2^e, or to a value just above it in
\* magnitude when inexact is set (m then has more digits than a significand)
F64Nearest(neg, m, e, inexact) ==
    F64Overflow(F64Rounded(neg, m, e, inexact, F64Shift(m, e)))


\* the position of the highest binary digit of a finite x that is not zero
Top(x) == x.e + BigBitLen(x.m) - 1

\* an integer of the model as f64: it has 31 binary digits at most, which
\* a significand holds
F64OfInt(i) == Odd(i < 0, BigOfNat(IF i < 0 THEN -i ELSE i), 0)

F64Neg(x) == [x EXCEPT !.neg = x.kind # "nan" /\ ~x.neg]

\* f64::abs
F64Abs(x) == [x EXCEPT !.neg = FALSE]

\* x * y
F64Mul(x, y) ==
    IF x.kind = "nan" \/ y.kind = "nan" THEN NAN
    ELSE IF x.kind = "inf" \/ y.kind = "inf"
    THEN (IF (x.kind = "finite" /\ x.m = <<>>) \/ (y.kind = "finite" /\ y.m = <<>>)
          THEN NAN ELSE Infinite(x.neg # y.neg))
    ELSE F64Nearest(x.neg # y.neg, BigMul(x.m, y.m), x.e + y.e, FALSE)

\* x + y for |x| = a * 2^e and |y| = b * 2^e, both above zero
F64AddAligned(x, y, a, b, e) ==
    IF x.neg # y.neg /\ a = b THEN Zero(FALSE)
    ELSE F64Nearest(IF x.neg = y.neg \/ BigLess(b, a) THEN x.neg ELSE y.neg,
                    IF x.neg = y.neg THEN BigAdd(a, b)
                    ELSE IF BigLess(a, b) THEN BigSub(b, a)
                    ELSE BigSub(a, b),
                    e, FALSE)

F64AddAt(x, y, e) ==
    F64AddAligned(x, y, BigShl(x.m, x.e - e), BigShl(y.m, y.e - e), e)

\* x + y
F64Add(x, y) ==
    IF x.kind = "nan" \/ y.kind = "nan" THEN NAN
    ELSE IF x.kind = "inf"
    THEN (IF y.kind = "inf" /\ x.neg # y.neg THEN NAN ELSE x)
    ELSE IF y.kind = "inf" THEN y
    ELSE IF x.m = <<>> /\ y.m = <<>> THEN Zero(x.neg /\ y.neg)
    ELSE IF x.m = <<>> THEN y
    ELSE IF y.m = <<>> THEN x
    ELSE IF Top(y) < Top(x) - MANTISSA_DIGITS - 2 THEN x
    ELSE IF Top(x) < Top(y) - MANTISSA_DIGITS - 2 THEN y
    ELSE F64AddAt(x, y, IF x.e < y.e THEN x.e ELSE y.e)

\* the f64 nearest to (-1)^neg * <<quotient, remainder>> * 2^e, where a
\* remainder stands for a fraction below one
F64OfDivision(neg, division, e) ==
    F64Nearest(neg, division[1], e, division[2] # <<>>)

\* the f64 nearest to (-1)^neg * a / b * 2^e, from a quotient of k binary
\* digits more than a has
F64OfShifted(neg, a, b, e, k) ==
    F64OfDivision(neg, BigDivMod(BigShl(a, k), b), e - k)

F64OfFraction(neg, a, b, e) ==
    F64OfShifted(neg, a, b, e, MANTISSA_DIGITS + 2 + BigBitLen(b))

\* x / y
F64Div(x, y) ==
    IF x.kind = "nan" \/ y.kind = "nan" THEN NAN
    ELSE IF x.kind = "inf"
    THEN (IF y.kind = "inf" THEN NAN ELSE Infinite(x.neg # y.neg))
    ELSE IF y.kind = "inf" THEN Zero(x.neg # y.neg)
    ELSE IF y.m = <<>>
    THEN (IF x.m = <<>> THEN NAN ELSE Infinite(x.neg # y.neg))
    ELSE IF x.m = <<>> THEN Zero(x.neg # y.neg)
    ELSE F64OfFraction(x.neg # y.neg, x.m, y.m, x.e - y.e)

\* F64Round that drops the fraction
F64Truncate(x) ==
    IF x.kind # "finite" \/ x.e >= 0 THEN x
    ELSE IF Top(x) < 0 THEN Zero(x.neg)
    ELSE Odd(x.neg, BigShr(x.m, -x.e), 0)

\* f64::round: the nearest integer, halves away from zero
F64Round(x) ==
    IF x.kind # "finite" \/ x.e >= 0 THEN x
    ELSE IF Top(x) < -1 THEN Zero(x.neg)
    ELSE Odd(x.neg,
             BigShr(BigAdd(x.m, BigShl(<<1>>, -x.e - 1)), -x.e), 0)

\* x < y for x and y of one sign and not zero
F64LessAt(x, y, e) ==
    IF x.neg THEN BigLess(BigShl(y.m, y.e - e), BigShl(x.m, x.e - e))
    ELSE BigLess(BigShl(x.m, x.e - e), BigShl(y.m, y.e - e))

\* x < y
F64Less(x, y) ==
    IF x.kind = "nan" \/ y.kind = "nan" THEN FALSE
    ELSE IF x.kind = "inf" THEN x.neg /\ ~(y.kind = "inf" /\ y.neg)
    ELSE IF y.kind = "inf" THEN ~y.neg
    ELSE IF x.m = <<>> THEN y.m # <<>> /\ ~y.neg
    ELSE IF y.m = <<>> THEN x.neg
    ELSE IF x.neg # y.neg THEN x.neg
    ELSE IF Top(x) # Top(y) THEN (Top(x) < Top(y)) # x.neg
    ELSE F64LessAt(x, y, IF x.e < y.e THEN x.e ELSE y.e)

\* x == y
F64Eq(x, y) ==
    /\ x.kind # "nan"
    /\ y.kind # "nan"
    /\ x = y \/ (x.kind = "finite" /\ y.kind = "finite" /\ x.m = <<>> /\ y.m = <<>>)

\* f64::EPSILON
EPSILON == Finite(FALSE, <<1>>, 1 - MANTISSA_DIGITS)

\* the f64 nearest to the rational p
F64OfRat(p) == F64Div(F64OfInt(p.n), F64OfInt(p.d))

\* the integer a, for a below 2^31
RECURSIVE IntOfBig(_)
IntOfBig(a) == IF a = <<>> THEN 0 ELSE Head(a) + LIMB * IntOfBig(Tail(a))

\* the rational a finite f64 is, in lowest terms; defined where numerator
\* and denominator are below 2^31
RatOfF64(x) ==
    CASE x.kind = "finite" /\ x.m = <<>> -> RatOfInt(0)
      [] x.kind = "finite" /\ x.m # <<>> /\ x.e >= 0 /\ Top(x) < 31 ->
            RatOfInt((IF x.neg THEN -1 ELSE 1) * IntOfBig(BigShl(x.m, x.e)))
      [] x.kind = "finite" /\ x.m # <<>> /\ x.e < 0 /\ x.e > -31
            /\ BigBitLen(x.m) < 31 ->
            [n |-> (IF x.neg THEN -1 ELSE 1) * IntOfBig(x.m), d |-> 2^(-x.e)]

\* Option<T>: None or Some(value)
None == [some |-> FALSE, value |-> 0]

Some(value) == [some |-> TRUE, value |-> value]

\* ------------------------------------------------------------------------
\* Decimal texts of f64: str::parse::<f64>, format!("{}", f64), and the
\* numbers of a JSON file as serde_json writes and reads them.  A text is a
\* string; Head and Tail take it apart character by character.
\* ------------------------------------------------------------------------

DecimalDigits == <<"0", "1", "2", "3", "4", "5", "6", "7", "8", "9">>

IsDigit(c) == \E d \in 1 .. 10 : DecimalDigits[d] = c

DigitValue(c) == (CHOOSE d \in 1 .. 10 : DecimalDigits[d] = c) - 1

\* how many decimal digits the text starts with, by halves
RECURSIVE CountDigits(_)
CountDigits(text) ==
    IF Len(text) <= 1 THEN (IF text # "" /\ IsDigit(text) THEN 1 ELSE 0)
    ELSE LET half == Len(text) \div 2
             first == CountDigits(SubSeq(text, 1, half))
         IN  IF first < half THEN first
             ELSE first + CountDigits(SubSeq(text, half + 1, Len(text)))

\* the decimal digits the text starts with
LeadingDigits(text) == SubSeq(text, 1, CountDigits(text))

\* the text without the decimal digits it starts with
SkipDigits(text) == SubSeq(text, CountDigits(text) + 1, Len(text))

RECURSIVE BigPow10(_)
BigPow10(k) ==
    IF k = 0 THEN <<1>>
    ELSE IF k % 2 = 1 THEN BigMulDigit(BigPow10(k - 1), 10, 0)
    ELSE LET half == BigPow10(k \div 2) IN BigMul(half, half)

\* the number written by a text of decimal digits, by halves
RECURSIVE BigOfDigits(_)
BigOfDigits(text) ==
    IF Len(text) <= 1 THEN BigOfNat(IF text = "" THEN 0 ELSE DigitValue(text))
    ELSE LET half == Len(text) \div 2
         IN  BigAdd(BigMul(BigOfDigits(SubSeq(text, 1, half)),
                           BigPow10(Len(text) - half)),
                    BigOfDigits(SubSeq(text, half + 1, Len(text))))

\* the decimal digits of a natural number
RECURSIVE FormatNat(_)
FormatNat(n) ==
    IF n < 10 THEN DecimalDigits[n + 1]
    ELSE FormatNat(n \div 10) \o DecimalDigits[(n % 10) + 1]

FormatInt(i) == IF i < 0 THEN "-" \o FormatNat(-i) ELSE FormatNat(i)

\* the decimal digits of a natural number of any size
RECURSIVE FormatBig(_)
FormatBigDivided(division) ==
    FormatBig(division[1])
        \o DecimalDigits[(IF division[2] = <<>> THEN 0 ELSE division[2][1]) + 1]

FormatBig(a) ==
    IF Len(a) <= 1 THEN FormatNat(IF a = <<>> THEN 0 ELSE a[1])
    ELSE FormatBigDivided(BigDivMod(a, <<10>>))

\* n times the digit 0
RECURSIVE Zeros(_)
Zeros(n) ==
    IF n <= 0 THEN "" ELSE IF n = 1 THEN "0"
    ELSE Zeros(n \div 2) \o Zeros(n - n \div 2)

\* the f64 nearest to (-1)^neg * digits * ten, or to digits / ten from a
\* quotient of k binary digits more than digits has
F64OfScaledBy(neg, digits, ten, up, k) ==
    F64OfDivision(neg,
                  IF up THEN <<BigMul(digits, ten), <<>> >>
                  ELSE BigDivMod(BigShl(digits, k), ten),
                  IF up THEN 0 ELSE -k)

F64OfScaled(neg, digits, ten, up) ==
    F64OfScaledBy(neg, digits, ten, up, MANTISSA_DIGITS + 2 + BigBitLen(ten))

\* the f64 nearest to (-1)^neg * digits * 10^exponent
F64OfDecimal(neg, digits, exponent) ==
    IF digits = <<>> THEN Zero(neg)
    ELSE IF ((BigBitLen(digits) - 1) * 3) \div 10 + exponent > 310
    THEN Infinite(neg)
    ELSE IF (BigBitLen(digits) * 31) \div 100 + 1 + exponent < -325
    THEN Zero(neg)
    ELSE F64OfScaled(neg, digits, BigPow10(IF exponent < 0 THEN -exponent ELSE exponent),
                     exponent >= 0)

\* a division with its divisor: <<quotient, remainder, divisor>>
BigDivWith(a, b) == BigDivMod(a, b) \o <<b>>

\* <<quotient, remainder, divisor>> of |x| by 10^k, for a finite x and ten
\* = 10^|k|
DivByPow10(x, k, ten) ==
    BigDivWith(BigMul(IF x.e < 0 THEN x.m ELSE BigShl(x.m, x.e),
                      IF k < 0 THEN ten ELSE <<1>>),
               BigShl(IF k < 0 THEN <<1>> ELSE ten, IF x.e < 0 THEN -x.e ELSE 0))

DivPow10(x, k) == DivByPow10(x, k, BigPow10(IF k < 0 THEN -k ELSE k))

\* the guess, set right by the quotient of |x| by 10^guess
MagnitudeBy(guess, quotient) ==
    IF quotient = <<>> THEN guess - 1
    ELSE IF ~BigLess(quotient, <<10>>) THEN guess + 1
    ELSE guess

MagnitudeFrom(x, guess) == MagnitudeBy(guess, DivPow10(x, guess)[1])

\* the position of the first decimal digit of a finite x that is not zero:
\* 10^Magnitude(x) <= |x| < 10^(Magnitude(x) + 1)
Magnitude(x) == MagnitudeFrom(x, (Top(x) * 30103) \div 100000)

\* [digits, exponent] without the zeros the digits end with
RECURSIVE Decimal(_, _)
DecimalDivided(digits, exponent, division) ==
    IF digits # <<>> /\ division[2] = <<>>
    THEN Decimal(division[1], exponent + 1)
    ELSE [digits |-> digits, exponent |-> exponent]

Decimal(digits, exponent) ==
    DecimalDivided(digits, exponent, BigDivMod(digits, <<10>>))

\* the last place of a finite x # 0: the binary position of the lowest
\* digit a significand of x can hold
LastPlace(x) ==
    IF Top(x) - MANTISSA_DIGITS + 1 > MIN_EXP - MANTISSA_DIGITS
    THEN Top(x) - MANTISSA_DIGITS + 1
    ELSE MIN_EXP - MANTISSA_DIGITS

\* value lies between low and high, these included when closed
Inside(closed, low, value, high) ==
    IF closed THEN ~BigLess(value, low) /\ ~BigLess(high, value)
    ELSE BigLess(low, value) /\ BigLess(value, high)

\* value / scale lies between centre - below and centre + 2
ReadsIn(closed, centre, below, value, scale) ==
    Inside(closed, BigMul(BigSub(centre, below), scale), value,
           BigMul(BigAdd(centre, <<2>>), scale))

\* digits * 10^exponent against |x|, in units of a quarter of the last
\* place of x, for ten = 10^|exponent|
ReadsAt(x, digits, exponent, place, ten) ==
    ReadsIn(x.e > place,
            BigShl(x.m, x.e - place + 2),
            \* below a power of two the f64 lie twice as close
            IF x.m = <<1>> /\ place > MIN_EXP - MANTISSA_DIGITS THEN <<1>> ELSE <<2>>,
            BigShl(IF exponent > 0 THEN BigMul(digits, ten) ELSE digits,
                   IF place < 2 THEN 2 - place ELSE 0),
            BigShl(IF exponent < 0 THEN ten ELSE <<1>>,
                   IF place > 2 THEN place - 2 ELSE 0))

\* digits * 10^exponent reads as the finite x # 0: it lies between the
\* midpoints from |x| to its two neighbours among the f64, the midpoints
\* included when the significand of x is even
ReadsAs(x, digits, exponent) ==
    ReadsAt(x, digits, exponent, LastPlace(x),
            BigPow10(IF exponent < 0 THEN -exponent ELSE exponent))

\* of the decimals below and above |x|, those that read as x, and of these
\* the nearer one
Told(near, k, telling, below) ==
    [tells |-> telling # {},
     exponent |-> k,
     digits |-> IF 1 \in telling /\ (below \/ 2 \notin telling)
                THEN near[1] ELSE near[2]]

ToldAmong(x, near, k, below) ==
    Told(near, k, {i \in 1 .. 2 : ReadsAs(x, near[i], k)}, below)

\* from the division of |x| by 10^k: the decimals next below and next
\* above |x| with last digit at 10^k; the one below is the nearer when
\* twice the remainder is less than the divisor
ToldBy(x, k, division) ==
    ToldAmong(x, <<division[1], BigAddCarry(division[1], <<>>, 1)>>, k,
              BigLess(BigShl(division[2], 1), division[3]))

\* the decimals of |x| down to the digit at 10^k: whether one of them
\* reads as x, and the one to take
Tells(x, k) == ToldBy(x, k, DivPow10(x, k))

\* the fewest digits n in low .. high of which a decimal reads as x, given
\* that one of high digits does, as the decimal of Tells at these digits.
\* While nothing is known but that 17 digits always do, the tries double
\* (1, 2, 4, 8, 16); after that they halve the range.
ShortestOf(told) == Decimal(told.digits, told.exponent)

RECURSIVE LeastDigits(_, _, _, _)
LeastDigitsTold(x, magnitude, low, high, n, told) ==
    IF low = high THEN told
    ELSE IF told.tells THEN LeastDigits(x, magnitude, low, n)
    ELSE LeastDigits(x, magnitude, n + 1, high)

LeastDigitsTry(x, magnitude, low, high, n) ==
    LeastDigitsTold(x, magnitude, low, high, n, Tells(x, magnitude - n + 1))

LeastDigits(x, magnitude, low, high) ==
    LeastDigitsTry(x, magnitude, low, high,
                   IF low = high \/ low = 1 THEN low
                   ELSE IF high = 17 THEN 2 * (low - 1)
                   ELSE (low + high) \div 2)

\* the decimal that tells a finite x # 0 from every other f64 with the
\* fewest digits, and of these the one nearest to x
Shortest(x) == ShortestOf(LeastDigits(x, Magnitude(x), 1, 17))

\* the digits with the decimal point after the first `point` of them
DisplayDigits(digits, point) ==
    IF point <= 0 THEN "0." \o Zeros(-point) \o digits
    ELSE IF point < Len(digits)
    THEN SubSeq(digits, 1, point) \o "." \o SubSeq(digits, point + 1, Len(digits))
    ELSE digits \o Zeros(point - Len(digits))

DisplayDecimal(digits, exponent) ==
    DisplayDigits(digits, Len(digits) + exponent)

DisplayShortest(decimal) ==
    DisplayDecimal(FormatBig(decimal.digits), decimal.exponent)

\* format!("{}", x): the digits of Shortest, written out without exponent
FormatF64(x) ==
    IF x.kind = "nan" THEN "NaN"
    ELSE IF x.kind = "inf" THEN (IF x.neg THEN "-inf" ELSE "inf")
    ELSE IF x.m = <<>> THEN (IF x.neg THEN "-0" ELSE "0")
    ELSE (IF x.neg THEN "-" ELSE "") \o DisplayShortest(Shortest(x))

\* str::parse::<f64>: the digits of an exponent; past 0x10000 the further
\* digits are left out
RECURSIVE SaturatingExponent(_, _)
SaturatingExponent(rest, exponent) ==
    IF rest = "" THEN exponent
    ELSE SaturatingExponent(Tail(rest),
                            IF exponent < 65536
                            THEN 10 * exponent + DigitValue(Head(rest))
                            ELSE exponent)

\* str::parse::<f64>: the exponent after 'e', None when no digit follows
ParseScientific(text) ==
    LET signed == text # "" /\ Head(text) \in {"+", "-"}
        digits == LeadingDigits(IF signed THEN Tail(text) ELSE text)
    IN  IF digits = "" THEN None
        ELSE Some([exponent |-> IF Head(text) = "-"
                                THEN -SaturatingExponent(digits, 0)
                                ELSE SaturatingExponent(digits, 0),
                   rest |-> SubSeq(text, Len(digits) + (IF signed THEN 2 ELSE 1),
                                   Len(text))])

\* str::parse::<f64>: "inf", "infinity" and "nan" in either case
LowerCase(c) ==
    CASE c = "A" -> "a" [] c = "F" -> "f" [] c = "I" -> "i" [] c = "N" -> "n"
      [] c = "T" -> "t" [] c = "Y" -> "y" [] OTHER -> c

RECURSIVE LowerCaseText(_)
LowerCaseText(text) ==
    IF text = "" THEN text
    ELSE LowerCase(Head(text)) \o LowerCaseText(Tail(text))

\* parse_inf_nan: a text of 3 or of 8 characters
ParseInfNan(text, neg) ==
    IF Len(text) \notin {3, 8} THEN None
    ELSE IF LowerCaseText(text) \in {"inf", "infinity"} THEN Some(Infinite(neg))
    ELSE IF LowerCaseText(text) = "nan" THEN Some(NAN)
    ELSE None

\* the number of the digits, of which the last `places` are after the
\* point, with the exponent; without digits, or with more text after the
\* exponent, the text can only be an infinity or a NaN
ParseNumber(neg, unsigned, digits, places, scientific) ==
    IF digits # "" /\ scientific.some /\ scientific.value.rest = ""
    THEN Some(F64OfDecimal(neg, BigOfDigits(digits),
                           scientific.value.exponent - places))
    ELSE ParseInfNan(unsigned, neg)

\* the text after the digits: 'e' or 'E' and an exponent, or nothing
ParseTail(neg, unsigned, digits, places, tail) ==
    ParseNumber(neg, unsigned, digits, places,
                IF tail # "" /\ Head(tail) \in {"e", "E"}
                THEN ParseScientific(Tail(tail))
                ELSE Some([exponent |-> 0, rest |-> tail]))

\* the text after the whole digits: a '.' and the digits of the fraction,
\* or none
ParseFraction(neg, unsigned, whole, fraction, after) ==
    ParseTail(neg, unsigned, whole \o fraction, Len(fraction),
              SubSeq(after, Len(fraction) + 1, Len(after)))

ParseDotted(neg, unsigned, whole, after, dotted) ==
    ParseFraction(neg, unsigned, whole,
                  IF dotted THEN LeadingDigits(Tail(after)) ELSE "",
                  IF dotted THEN Tail(after) ELSE after)

ParseWhole(neg, unsigned, whole, after) ==
    ParseDotted(neg, unsigned, whole, after, after # "" /\ Head(after) = ".")

ParseUnsigned(neg, unsigned) ==
    IF unsigned = "" THEN None
    ELSE ParseWhole(neg, unsigned, LeadingDigits(unsigned), SkipDigits(unsigned))

\* str::parse::<f64>(): Some(the f64 nearest to the number written) or None.
\* A sign, then digits with at most one '.' among them and at least one
\* digit, then 'e' or 'E' with a signed exponent; or a sign and "inf",
\* "infinity" or "nan".
ParseF64(text) ==
    ParseUnsigned(text # "" /\ Head(text) = "-",
                  IF text # "" /\ Head(text) \in {"+", "-"} THEN Tail(text) ELSE text)

\* ------------------------------------------------------------------------
\* The numbers of a JSON file (crate serde_json)
\* ------------------------------------------------------------------------

\* the exponent of a JSON number: "e", the sign ("+" or "-") and the digits
JsonExponentText(exponent) ==
    IF exponent < 0 THEN "e-" \o FormatNat(-exponent)
    ELSE "e+" \o FormatNat(exponent)

\* the digits with a decimal point when the first digit is at most 16
\* places before and 5 places after the point, and with an exponent beyond
JsonDigits(digits, k, kk) ==
    IF 0 <= k /\ kk <= 16 THEN digits \o Zeros(k) \o ".0"
    ELSE IF 0 < kk /\ kk <= 16
    THEN SubSeq(digits, 1, kk) \o "." \o SubSeq(digits, kk + 1, Len(digits))
    ELSE IF -5 < kk /\ kk <= 0 THEN "0." \o Zeros(-kk) \o digits
    ELSE IF Len(digits) = 1 THEN digits \o JsonExponentText(kk - 1)
    ELSE SubSeq(digits, 1, 1) \o "." \o SubSeq(digits, 2, Len(digits))
            \o JsonExponentText(kk - 1)

JsonDecimal(digits, exponent) == JsonDigits(digits, exponent, Len(digits) + exponent)

JsonShortest(decimal) == JsonDecimal(FormatBig(decimal.digits), decimal.exponent)

\* what serde_json writes for a finite f64: the digits of Shortest
JsonNumberText(x) ==
    IF x.m = <<>> THEN (IF x.neg THEN "-0.0" ELSE "0.0")
    ELSE (IF x.neg THEN "-" ELSE "") \o JsonShortest(Shortest(x))

\* u64::MAX
U64_MAX == BigSub(BigShl(<<1>>, 64), <<1>>)

\* i32::MAX
I32_MAX == 2147483647

\* significand * 10^n + the first n of the digits
WithDigits(significand, digits, n) ==
    BigAdd(BigMul(significand, BigPow10(n)), BigOfDigits(SubSeq(digits, 1, n)))

\* the significand with as many of the digits as leave it within u64::MAX
TakeFitting(text, with, taken) ==
    [significand |-> with[taken], rest |-> SubSeq(text, taken + 1, Len(text))]

TakeAmong(text, with) ==
    TakeFitting(text, with,
                Cardinality({n \in DOMAIN with : ~BigLess(U64_MAX, with[n])}) - 1)

\* the digits serde_json takes into the u64 significand: it stops before
\* the digit that would take it over u64::MAX
TakeDigits(text, significand) ==
    TakeAmong(text, [n \in 0 .. CountDigits(text) |->
                        WithDigits(significand, LeadingDigits(text), n)])

\* the table POW10 of serde_json: 1e0 .. 1e308
POW10(i) == F64OfDecimal(FALSE, <<1>>, i)

\* f *= pow or f /= pow
F64Scale(f, up, pow) == IF up THEN F64Mul(f, pow) ELSE F64Div(f, pow)

\* f64_from_parts: significand as f64, times or divided by a power of ten
\* of the table, each step rounded; past the table f is divided by 1e308
\* and the rest of the exponent is gone through again
RECURSIVE f64_from_parts(_, _, _)
f64_scaled(neg, f, exponent, scaled) ==
    IF exponent >= -308 /\ exponent <= 308
    THEN (IF scaled.kind = "inf" THEN None ELSE Some([scaled EXCEPT !.neg = neg]))
    ELSE IF f.m = <<>> THEN Some(Zero(neg))
    ELSE IF exponent >= 0 THEN None
    ELSE f64_from_parts(neg, scaled, exponent + 308)

f64_from_parts(neg, f, exponent) ==
    f64_scaled(neg, f, exponent,
               F64Scale(f, exponent >= 0,
                        POW10(IF exponent < -308 \/ exponent > 308 THEN 308
                              ELSE IF exponent < 0 THEN -exponent ELSE exponent)))

\* parse_exponent: the digits after 'e', kept within i32
RECURSIVE ExponentDigits(_, _)
ExponentDigits(text, exp) ==
    IF text = "" THEN exp
    ELSE LET digit == DigitValue(Head(text))
         IN  IF /\ exp >= I32_MAX \div 10
                /\ (exp > I32_MAX \div 10 \/ digit > I32_MAX % 10)
             THEN -1
             ELSE ExponentDigits(Tail(text), exp * 10 + digit)

\* what the text of a number comes to before f64_from_parts: an error, a
\* zero (parse_exponent_overflow), or the significand with its exponent
NumberError == [kind |-> "error", exponent |-> 0]

NumberZero == [kind |-> "zero", exponent |-> 0]

NumberParts(exponent) == [kind |-> "parts", exponent |-> exponent]

\* parse_exponent: the exponent after 'e' added to the one the digits gave,
\* within i32; an exponent past i32 is an error when it is positive and the
\* significand is not zero, and gives zero otherwise
parse_exponent_digits(significand, starting_exp, positive_exp, exp) ==
    IF exp < 0
    THEN (IF significand # <<>> /\ positive_exp THEN NumberError ELSE NumberZero)
    ELSE NumberParts(IF positive_exp
                   THEN (IF starting_exp > 0 /\ exp > I32_MAX - starting_exp
                         THEN I32_MAX ELSE starting_exp + exp)
                   ELSE (IF starting_exp < 0 /\ exp > I32_MAX + starting_exp
                         THEN -I32_MAX - 1 ELSE starting_exp - exp))

parse_exponent_signed(significand, starting_exp, positive_exp, digits) ==
    IF digits = "" \/ SkipDigits(digits) # "" THEN NumberError
    ELSE parse_exponent_digits(significand, starting_exp, positive_exp,
                               ExponentDigits(digits, 0))

parse_exponent(significand, starting_exp, text) ==
    parse_exponent_signed(significand, starting_exp,
                          text = "" \/ Head(text) # "-",
                          IF text # "" /\ Head(text) \in {"+", "-"}
                          THEN Tail(text) ELSE text)

\* what follows the digits of a number: an exponent or the end
JsonExponent(significand, exponent, text) ==
    IF text = "" THEN NumberParts(exponent)
    ELSE IF Head(text) \in {"e", "E"}
    THEN parse_exponent(significand, exponent, Tail(text))
    ELSE NumberError

\* the number of a significand and what its text came to
JsonFinish(neg, significand, parts) ==
    IF parts.kind = "error" THEN None
    ELSE IF parts.kind = "zero" THEN Some(Zero(neg))
    ELSE f64_from_parts(neg, F64Nearest(FALSE, significand, 0, FALSE),
                        parts.exponent)

JsonTail(neg, significand, exponent, text) ==
    JsonFinish(neg, significand, JsonExponent(significand, exponent, text))

\* parse_decimal: the digits after the '.', each one lowering the exponent;
\* the digits that do not fit the significand are dropped
parse_decimal(neg, exponent_before_decimal_point, text, taken) ==
    JsonTail(neg, taken.significand,
             exponent_before_decimal_point + Len(taken.rest) - Len(text),
             SkipDigits(taken.rest))

\* the digits before the point are taken; parse_long_integer: each digit
\* that does not fit raises the exponent.  After a '.' there must be a
\* digit.
JsonFraction(neg, whole, exponent, text, dotted) ==
    IF dotted /\ (text = "" \/ ~IsDigit(Head(text))) THEN None
    ELSE parse_decimal(neg, exponent, text,
                              IF dotted THEN TakeDigits(text, whole)
                              ELSE [significand |-> whole, rest |-> text])

JsonWhole(neg, taken, rest) ==
    JsonFraction(neg, taken.significand, Len(taken.rest) - Len(rest),
                 IF rest # "" /\ Head(rest) = "." THEN Tail(rest) ELSE rest,
                 rest # "" /\ Head(rest) = ".")

JsonTaken(neg, taken) == JsonWhole(neg, taken, SkipDigits(taken.rest))

JsonUnsigned(neg, unsigned) ==
    IF unsigned = "" \/ ~IsDigit(Head(unsigned)) THEN None
    ELSE IF Head(unsigned) = "0" /\ Len(unsigned) > 1 /\ IsDigit(Head(Tail(unsigned)))
    THEN None
    ELSE JsonTaken(neg, TakeDigits(unsigned, <<>>))

\* serde_json reads an f64 from the text of a JSON number: Some(f64), or
\* None when the text is no number of JSON or one out of range
JsonF64(text) ==
    JsonUnsigned(text # "" /\ Head(text) = "-",
                 IF text # "" /\ Head(text) = "-" THEN Tail(text) ELSE text)



\* ------------------------------------------------------------------------
\* world.rs: ids, World
\* ------------------------------------------------------------------------

ResourceId(i) == [kind |-> "Resource", index |-> i]

RecipeId(i) == [kind |-> "Recipe", index |-> i]

Recipe(name, tags, rates) == [name |-> name, tags |-> tags, rates |-> rates]

World(resources, recipes) == [resources |-> resources, recipes |-> recipes]

\* the variables of a world: one per resource and one per recipe
VariableIds(w) ==
    {ResourceId(i) : i \in 0 .. Len(w.resources) - 1}
        \cup {RecipeId(i) : i \in 0 .. Len(w.recipes) - 1}

\* Catalogs the model is explored on.  Rates are <<resource index, rate>>.
\* SmeltWorld is the catalog of the specification's scenarios A and B.
SmeltWorld ==
    World(<<"Ore", "Ingot">>,
          <<Recipe("Smelt", <<>>, << <<0, F64OfInt(-30)>>, <<1, F64OfInt(30)>> >>)>>)

\* two recipes that share one resource
ByproductWorld ==
    World(<<"Slag">>,
          <<Recipe("Make", <<>>, << <<0, F64OfInt(2)>> >>),
            Recipe("Use", <<>>, << <<0, F64OfInt(-7)>> >>)>>)

\* a recipe whose rate is so large that small throughputs matter
TraceWorld ==
    World(<<"Dust">>,
          <<Recipe("Sift", <<>>, << <<0, F64OfInt(-3000000)>> >>)>>)

Worlds == {SmeltWorld, ByproductWorld, TraceWorld}

\* ------------------------------------------------------------------------
\* builder.rs: Constraint, Rule, Problem
\* ------------------------------------------------------------------------

Less(rate) == [kind |-> "Less", rate |-> rate]

Equal(rate) == [kind |-> "Equal", rate |-> rate]

Greater(rate) == [kind |-> "Greater", rate |-> rate]

\* Unconstrained carries no threshold: rate is unused
Unconstrained == [kind |-> "Unconstrained", rate |-> Zero(FALSE)]

Rule(variable, constraint) == [variable |-> variable, constraint |-> constraint]

Problem(rules, optimizations) == [rules |-> rules, optimizations |-> optimizations]

SOLUTION_ROUND_PRECISION == 1000000

\* ------------------------------------------------------------------------
\* Problem::solve, part 1: the linear program
\* ------------------------------------------------------------------------

\* objective coefficients: the loop over self.optimizations assigns
\* coefficients[index] = coefficient, entry after entry
RECURSIVE SetCoefficients(_, _, _)
SetCoefficients(optimizations, kind, coefficients) ==
    IF optimizations = <<>> THEN coefficients
    ELSE LET variable == Head(optimizations)[1]
             coefficient == Head(optimizations)[2]
         IN  SetCoefficients(
                 Tail(optimizations), kind,
                 IF variable.kind = kind
                 THEN [coefficients EXCEPT ![variable.index + 1] = coefficient]
                 ELSE coefficients)

ResourceCoefficients(w, p) ==
    SetCoefficients(p.optimizations, "Resource",
                    [i \in 1 .. Len(w.resources) |-> Zero(FALSE)])

RecipeCoefficients(w, p) ==
    SetCoefficients(p.optimizations, "Recipe",
                    [i \in 1 .. Len(w.recipes) |-> Zero(FALSE)])

\* the solver's variable handles, in add_var order: resources, then recipes
ResourceVariable(w, index) == index

RecipeVariable(w, index) == Len(w.resources) + index

VariableOf(w, variable) ==
    IF variable.kind = "Resource"
    THEN ResourceVariable(w, variable.index)
    ELSE RecipeVariable(w, variable.index)

NumVariables(w) == Len(w.resources) + Len(w.recipes)

LinearConstraint(expr, op, rhs) == [expr |-> expr, op |-> op, rhs |-> rhs]

\* the (recipe variable, rate) pairs one recipe contributes to a resource
RECURSIVE RatesFor(_, _, _)
RatesFor(rates, resourceIndex, recipeVariable) ==
    IF rates = <<>> THEN <<>>
    ELSE (IF Head(rates)[1] = resourceIndex
          THEN << <<recipeVariable, Head(rates)[2]>> >>
          ELSE <<>>)
         \o RatesFor(Tail(rates), resourceIndex, recipeVariable)

\* resource_recipe_coefficients[resourceIndex], filled recipe after recipe
RECURSIVE ResourceRecipeCoefficients(_, _, _)
ResourceRecipeCoefficients(w, resourceIndex, recipeIndex) ==
    IF recipeIndex >= Len(w.recipes) THEN <<>>
    ELSE RatesFor(w.recipes[recipeIndex + 1].rates, resourceIndex,
                  RecipeVariable(w, recipeIndex))
         \o ResourceRecipeCoefficients(w, resourceIndex, recipeIndex + 1)

\* ConservationConstraints without the resource's own variable
ConservationConstraintsNoResource(w) ==
    [i \in 1 .. Len(w.resources) |->
        LinearConstraint(ResourceRecipeCoefficients(w, i - 1, 0), "Eq", Zero(FALSE))]

ConservationConstraints(w) ==
    [i \in 1 .. Len(w.resources) |->
        LinearConstraint(
            ResourceRecipeCoefficients(w, i - 1, 0)
                \o << <<ResourceVariable(w, i - 1), F64OfInt(-1)>> >>,
            "Eq", Zero(FALSE))]

\* NonNegativityConstraints with the comparison turned round
NonNegativityConstraintsLe(w) ==
    [j \in 1 .. Len(w.recipes) |->
        LinearConstraint(<< <<RecipeVariable(w, j - 1), F64OfInt(1)>> >>, "Le", Zero(FALSE))]

NonNegativityConstraints(w) ==
    [j \in 1 .. Len(w.recipes) |->
        LinearConstraint(<< <<RecipeVariable(w, j - 1), F64OfInt(1)>> >>, "Ge", Zero(FALSE))]

\* ComparisonOp with Less and Greater exchanged
ComparisonOpSwapped(constraint) ==
    CASE constraint.kind = "Less" -> "Ge"
      [] constraint.kind = "Equal" -> "Eq"
      [] constraint.kind = "Greater" -> "Le"

ComparisonOp(constraint) ==
    CASE constraint.kind = "Less" -> "Le"
      [] constraint.kind = "Equal" -> "Eq"
      [] constraint.kind = "Greater" -> "Ge"

\* UserConstraints that stops after the first rule
UserConstraintsFirstOnly(w, rules) ==
    IF rules = <<>> \/ Head(rules).constraint.kind = "Unconstrained" THEN <<>>
    ELSE <<LinearConstraint(
               << <<VariableOf(w, Head(rules).variable), F64OfInt(1)>> >>,
               ComparisonOp(Head(rules).constraint),
               Head(rules).constraint.rate)>>

\* UserConstraints in which Unconstrained falls through to "= 0"
RECURSIVE UserConstraintsUnconstrainedAsEqual(_, _)
UserConstraintsUnconstrainedAsEqual(w, rules) ==
    IF rules = <<>> THEN <<>>
    ELSE <<LinearConstraint(
               << <<VariableOf(w, Head(rules).variable), F64OfInt(1)>> >>,
               IF Head(rules).constraint.kind = "Unconstrained"
               THEN "Eq"
               ELSE ComparisonOp(Head(rules).constraint),
               Head(rules).constraint.rate)>>
         \o UserConstraintsUnconstrainedAsEqual(w, Tail(rules))

\* the constraints of the rules, in rule order; Unconstrained adds none
RECURSIVE UserConstraints(_, _)
UserConstraints(w, rules) ==
    IF rules = <<>> THEN <<>>
    ELSE (IF Head(rules).constraint.kind = "Unconstrained"
          THEN <<>>
          ELSE <<LinearConstraint(
                     << <<VariableOf(w, Head(rules).variable), F64OfInt(1)>> >>,
                     ComparisonOp(Head(rules).constraint),
                     Head(rules).constraint.rate)>>)
         \o UserConstraints(w, Tail(rules))

\* ResourceDefault with the flag cleared only by rules that emit a constraint
RECURSIVE ResourceDefaultSkipsUnconstrained(_, _)
ResourceDefaultSkipsUnconstrained(rules, flags) ==
    IF rules = <<>> THEN flags
    ELSE ResourceDefaultSkipsUnconstrained(
             Tail(rules),
             IF /\ Head(rules).variable.kind = "Resource"
                /\ Head(rules).constraint.kind # "Unconstrained"
             THEN [flags EXCEPT ![Head(rules).variable.index + 1] = FALSE]
             ELSE flags)

\* resource_default after the loop over the rules: TRUE until a rule names
\* the resource
RECURSIVE ResourceDefault(_, _)
ResourceDefault(rules, flags) ==
    IF rules = <<>> THEN flags
    ELSE ResourceDefault(
             Tail(rules),
             IF Head(rules).variable.kind = "Resource"
             THEN [flags EXCEPT ![Head(rules).variable.index + 1] = FALSE]
             ELSE flags)

\* DefaultConstraints that constrains nothing
DefaultConstraintsNone(w, flags, index) == <<>>

RECURSIVE DefaultConstraints(_, _, _)
DefaultConstraints(w, flags, index) ==
    IF index >= Len(flags) THEN <<>>
    ELSE (IF flags[index + 1]
          THEN <<LinearConstraint(<< <<ResourceVariable(w, index), F64OfInt(1)>> >>,
                                  "Eq", Zero(FALSE))>>
          ELSE <<>>)
         \o DefaultConstraints(w, flags, index + 1)

\* BuildProblem that adds the constraints of the rules before the ">= 0" of
\* the recipes
BuildProblemRulesFirst(w, p) ==
    [objective |-> ResourceCoefficients(w, p) \o RecipeCoefficients(w, p),
     constraints |->
        ConservationConstraints(w)
            \o UserConstraints(w, p.rules)
            \o NonNegativityConstraints(w)
            \o DefaultConstraints(
                   w, ResourceDefault(p.rules, [i \in 1 .. Len(w.resources) |-> TRUE]), 0)]

\* the minilp::Problem that solve has built when it calls problem.solve()
BuildProblem(w, p) ==
    [objective |-> ResourceCoefficients(w, p) \o RecipeCoefficients(w, p),
     constraints |->
        ConservationConstraints(w)
            \o NonNegativityConstraints(w)
            \o UserConstraints(w, p.rules)
            \o DefaultConstraints(
                   w, ResourceDefault(p.rules, [i \in 1 .. Len(w.resources) |-> TRUE]), 0)]

\* ------------------------------------------------------------------------
\* The linear-programming capability behind problem.solve() (crate minilp),
\* by its contract: Infeasible when no point satisfies the constraints,
\* Unbounded when the objective grows without limit over them, otherwise an
\* optimal basic solution.  The feasible set of every program built above
\* contains no line (recipes are >= 0 and resources are sums of recipes), so
\* it is non-empty exactly when it has a vertex, and a bounded optimum is
\* attained at a vertex.  Which optimal vertex the solver returns is its own
\* choice: the model keeps all of them.  The contract is evaluated on the
\* exact values of the f64 coefficients and right-hand sides.  Multiplying
\* every right-hand side by one positive number multiplies the feasible set
\* and its vertices by that number and leaves the outcome as it is, so a
\* program whose right-hand sides are beyond the integers of the model is
\* solved with its right-hand sides divided by one of them, the scale, and
\* the solver's values are the values found times the scale.
\* ------------------------------------------------------------------------

\* x is a finite f64 whose numerator and denominator are below 2^31
Representable(x) ==
    /\ x.kind = "finite"
    /\ \/ x.m = <<>>
       \/ x.e >= 0 /\ Top(x) < 31
       \/ x.e < 0 /\ x.e > -31 /\ BigBitLen(x.m) < 31

\* the greatest common divisor of a and b, not both zero
RECURSIVE BigGcd(_, _)
BigGcd(a, b) == IF b = <<>> THEN a ELSE BigGcd(b, BigDivMod(a, b)[2])

\* (-1)^neg * a / b in lowest terms, g being the greatest common divisor
RatOfBigBy(neg, a, b, g) ==
    [n |-> (IF neg THEN -1 ELSE 1) * IntOfBig(BigDivMod(a, g)[1]),
     d |-> IntOfBig(BigDivMod(b, g)[1])]

RatOfBig(neg, a, b) == RatOfBigBy(neg, a, b, BigGcd(a, b))

RatOfQuotientAt(x, scale, e) ==
    RatOfBig(x.neg, BigShl(x.m, x.e - e), BigShl(scale.m, scale.e - e))

\* the rational x / scale for a finite f64 x and a finite f64 scale above
\* zero, in lowest terms; defined where its numerator and denominator are
\* below 2^31
RatOfQuotient(x, scale) ==
    IF x.m = <<>> THEN RatOfInt(0)
    ELSE RatOfQuotientAt(x, scale, IF x.e < scale.e THEN x.e ELSE scale.e)

\* the scale of a program: 1 when every right-hand side is a rational of
\* the model, and otherwise the magnitude of the first that is not
ProgramScale(lp) ==
    LET beyond == {k \in 1 .. Len(lp.constraints) :
                        ~Representable(lp.constraints[k].rhs)}
    IN  IF beyond = {} THEN F64OfInt(1)
        ELSE F64Abs(lp.constraints[CHOOSE k \in beyond :
                                        \A h \in beyond : k <= h].rhs)

\* the least common multiple of the denominators of a sequence of rationals
RECURSIVE CommonDenominator(_)
CommonDenominator(s) ==
    IF s = <<>> THEN 1
    ELSE LET rest == CommonDenominator(Tail(s))
         IN  (Head(s).d \div Gcd(Head(s).d, rest)) * rest

\* the sequence of rationals as integers over the denominator d
OverDenominator(rationals, d) ==
    [h \in 1 .. Len(rationals) |-> rationals[h].n * (d \div rationals[h].d)]

\* the rationals as integers over their common denominator: the first of
\* them is the right-hand side, the others are the coefficients
ExactRow(constraint, integers) ==
    [constraint EXCEPT
        !.expr = [k \in 1 .. Len(@) |-> <<@[k][1], integers[k + 1]>>],
        !.rhs = integers[1]]

ExactRationals(constraint, rationals) ==
    ExactRow(constraint, OverDenominator(rationals, CommonDenominator(rationals)))

\* the constraint, its right-hand side divided by scale, multiplied by the
\* common denominator of its numbers: scale times the points that satisfy
\* it satisfy the constraint
ExactConstraint(constraint, scale) ==
    ExactRationals(
        constraint,
        <<RatOfQuotient(constraint.rhs, scale)>>
            \o [k \in 1 .. Len(constraint.expr) |-> RatOfF64(constraint.expr[k][2])])

ExactRationalObjective(rationals) ==
    OverDenominator(rationals, CommonDenominator(rationals))

\* the objective multiplied by the common denominator of its coefficients:
\* it orders the points as before
ExactObjective(objective) ==
    ExactRationalObjective([h \in 1 .. Len(objective) |-> RatOfF64(objective[h])])

ExactProgramAt(lp, scale) ==
    [objective |-> ExactObjective(lp.objective),
     constraints |->
        [k \in 1 .. Len(lp.constraints) |-> ExactConstraint(lp.constraints[k], scale)],
     scale |-> scale]

\* the program in integers, with the scale of its right-hand sides
ExactProgram(lp) == ExactProgramAt(lp, ProgramScale(lp))

RECURSIVE CoefficientOf(_, _)
CoefficientOf(expr, variable) ==
    IF expr = <<>> THEN 0
    ELSE (IF Head(expr)[1] = variable THEN Head(expr)[2] ELSE 0)
         + CoefficientOf(Tail(expr), variable)

DenseRow(expr, n) == [h \in 1 .. n |-> CoefficientOf(expr, h - 1)]

Minor(m, col) ==
    [i \in 1 .. Len(m) - 1 |->
        [j \in 1 .. Len(m) - 1 |-> m[i + 1][IF j < col THEN j ELSE j + 1]]]

\* the determinant: written out up to 3 x 3, by expansion along the first
\* row beyond
RECURSIVE Det(_)
Det(m) ==
    CASE Len(m) = 0 -> 1
      [] Len(m) = 1 -> m[1][1]
      [] Len(m) = 2 -> m[1][1] * m[2][2] - m[1][2] * m[2][1]
      [] Len(m) = 3 ->
            m[1][1] * (m[2][2] * m[3][3] - m[2][3] * m[3][2])
            - m[1][2] * (m[2][1] * m[3][3] - m[2][3] * m[3][1])
            + m[1][3] * (m[2][1] * m[3][2] - m[2][2] * m[3][1])
      [] OTHER ->
            SumSeq([j \in 1 .. Len(m) |->
                IF m[1][j] = 0 THEN 0
                ELSE (IF j % 2 = 1 THEN 1 ELSE -1) * m[1][j] * Det(Minor(m, j))])

\* the strictly increasing sequences of k numbers out of lo .. hi
RECURSIVE Choices(_, _, _)
Choices(lo, hi, k) ==
    IF k = 0 THEN {<<>>}
    ELSE UNION {{<<i>> \o rest : rest \in Choices(i + 1, hi, k - 1)} :
                    i \in lo .. hi - k + 1}

\* the value of a linear expression at a point (a sequence of rationals)
ExprValue(expr, point) ==
    RatSumSeq([k \in 1 .. Len(expr) |-> RatMulInt(point[expr[k][1] + 1], expr[k][2])])

Satisfies(point, constraint) ==
    LET lhs == ExprValue(constraint.expr, point)
        rhs == RatOfInt(constraint.rhs)
    IN  CASE constraint.op = "Eq" -> lhs = rhs
          [] constraint.op = "Le" -> RatLeq(lhs, rhs)
          [] constraint.op = "Ge" -> RatLeq(rhs, lhs)

\* the point where the rows picked by `rows` of the system a . x = b are all
\* tight, by Cramer's rule; <<>> when they do not determine a single point
TightPoint(a, b, rows, n) ==
    LET m == [i \in 1 .. n |-> a[rows[i]]]
        d == Det(m)
    IN  IF d = 0 THEN <<>>
        ELSE [h \in 1 .. n |->
                Rat(Det([i \in 1 .. n |-> [m[i] EXCEPT ![h] = b[rows[i]]]]), d)]

Vertices(constraints, n) ==
    LET a == [k \in 1 .. Len(constraints) |-> DenseRow(constraints[k].expr, n)]
        b == [k \in 1 .. Len(constraints) |-> constraints[k].rhs]
        candidates ==
            {TightPoint(a, b, rows, n) : rows \in Choices(1, Len(constraints), n)}
    IN  {point \in candidates :
            /\ point # <<>>
            /\ \A k \in 1 .. Len(constraints) : Satisfies(point, constraints[k])}

ObjectiveExpr(objective) == [h \in 1 .. Len(objective) |-> <<h - 1, objective[h]>>]

ObjectiveValue(objective, point) == ExprValue(ObjectiveExpr(objective), point)

\* directions d of the feasible set of a program in integers along which
\* the objective grows, normalised to objective . d = 1
Rays(lp) ==
    Vertices(
        [k \in 1 .. Len(lp.constraints) |->
            [lp.constraints[k] EXCEPT !.rhs = 0]]
            \o <<LinearConstraint(ObjectiveExpr(lp.objective), "Eq", 1)>>,
        Len(lp.objective))

\* the possible results of minilp's Problem::solve on the program lp: the
\* status, and for Ok the values of the variables as rationals to be
\* multiplied by the scale
MinilpSolve(lp) ==
    LET exact == ExactProgram(lp)
        vertices == Vertices(exact.constraints, Len(exact.objective))
    IN  IF vertices = {}
        THEN {[status |-> "Infeasible", values |-> <<>>, scale |-> exact.scale]}
        ELSE IF Rays(exact) # {}
        THEN {[status |-> "Unbounded", values |-> <<>>, scale |-> exact.scale]}
        ELSE {[status |-> "Ok", values |-> point, scale |-> exact.scale] :
                point \in {v \in vertices :
                    \A u \in vertices :
                        RatLeq(ObjectiveValue(exact.objective, u),
                               ObjectiveValue(exact.objective, v))}}

\* ------------------------------------------------------------------------
\* Problem::solve, part 2: extraction, rounding and pruning
\* ------------------------------------------------------------------------

\* RoundRate with one decimal less
RoundRateCoarse(rate) ==
    F64Div(F64Round(F64Mul(rate, F64OfInt(SOLUTION_ROUND_PRECISION \div 10))),
           F64OfInt(SOLUTION_ROUND_PRECISION \div 10))

\* (rate * SOLUTION_ROUND_PRECISION).round() / SOLUTION_ROUND_PRECISION
RoundRate(rate) ==
    F64Div(F64Round(F64Mul(rate, F64OfInt(SOLUTION_ROUND_PRECISION))),
           F64OfInt(SOLUTION_ROUND_PRECISION))

\* rate.abs() < f64::EPSILON
BelowEpsilon(rate) == F64Less(F64Abs(rate), EPSILON)

\* the f64 nearest to the rational p times the f64 scale, scale above zero
F64OfRatTimes(p, scale) ==
    IF p.n = 0 THEN Zero(FALSE)
    ELSE F64OfFraction(p.n < 0, BigMul(BigOfNat(Abs(p.n)), scale.m),
                       BigOfNat(p.d), scale.e)

\* *solution.var_value(variable): the solver's value as the f64 it returns
var_value(solution, variable) ==
    F64OfRatTimes(solution.values[variable + 1], solution.scale)

\* Extract that pushes each entry at the front
RECURSIVE ExtractReversed(_, _, _)
ExtractReversed(w, solution, index) ==
    IF index >= Len(w.recipes) THEN <<>>
    ELSE LET rate == RoundRate(var_value(solution, RecipeVariable(w, index)))
         IN  ExtractReversed(w, solution, index + 1)
             \o (IF BelowEpsilon(rate) THEN <<>> ELSE << <<index, rate>> >>)

\* the loop over recipe_variables: round, skip what is below epsilon, push
RECURSIVE Extract(_, _, _)
Extract(w, solution, index) ==
    IF index >= Len(w.recipes) THEN <<>>
    ELSE LET rate == RoundRate(var_value(solution, RecipeVariable(w, index)))
         IN  (IF BelowEpsilon(rate) THEN <<>> ELSE << <<index, rate>> >>)
             \o Extract(w, solution, index + 1)

Ok(factory) == [ok |-> TRUE, factory |-> factory, error |-> ""]

Err(error) == [ok |-> FALSE, factory |-> <<>>, error |-> error]

\* SolveResult with both solver errors mapped to the same text
SolveResultOneError(w, solution) ==
    IF solution.status = "Ok"
    THEN Ok(Extract(w, solution, 0))
    ELSE Err("Infeasible")

\* the Result<Factory, String> of Problem::solve for one answer of the solver
SolveResult(w, solution) ==
    IF solution.status = "Ok"
    THEN Ok(Extract(w, solution, 0))
    ELSE Err(solution.status)

\* ------------------------------------------------------------------------
\* factory.rs: Factory::net_resources
\* ------------------------------------------------------------------------

\* AddRates that puts each contribution at the front of the list
RECURSIVE AddRatesPrepend(_, _, _, _)
AddRatesPrepend(resources, recipeIndex, recipeRate, rates) ==
    IF rates = <<>> THEN resources
    ELSE LET resourceIndex == Head(rates)[1]
             rate == F64Mul(recipeRate, Head(rates)[2])
             entry == resources[resourceIndex + 1]
         IN  AddRatesPrepend(
                 [resources EXCEPT ![resourceIndex + 1] =
                     <<F64Add(entry[1], rate), << <<recipeIndex, rate>> >> \o entry[2]>>],
                 recipeIndex, recipeRate, Tail(rates))

\* the inner loop: one Factory entry applied to the accumulators
RECURSIVE AddRates(_, _, _, _)
AddRates(resources, recipeIndex, recipeRate, rates) ==
    IF rates = <<>> THEN resources
    ELSE LET resourceIndex == Head(rates)[1]
             rate == F64Mul(recipeRate, Head(rates)[2])
             entry == resources[resourceIndex + 1]
         IN  AddRates(
                 [resources EXCEPT ![resourceIndex + 1] =
                     <<F64Add(entry[1], rate), Append(entry[2], <<recipeIndex, rate>>)>>],
                 recipeIndex, recipeRate, Tail(rates))

\* the outer loop over the Factory entries
RECURSIVE AddRecipes(_, _, _)
AddRecipes(resources, w, recipes) ==
    IF recipes = <<>> THEN resources
    ELSE AddRecipes(
             AddRates(resources, Head(recipes)[1], Head(recipes)[2],
                      w.recipes[Head(recipes)[1] + 1].rates),
             w, Tail(recipes))

net_resources(factory, w) ==
    AddRecipes([i \in 1 .. Len(w.resources) |-> <<Zero(FALSE), <<>> >>], w, factory)

\* ------------------------------------------------------------------------
\* world.rs: name lookups
\* ------------------------------------------------------------------------

\* Position that keeps the last match
RECURSIVE PositionLast(_, _, _)
PositionLast(names, name, index) ==
    IF index >= Len(names) THEN None
    ELSE LET later == PositionLast(names, name, index + 1)
         IN  IF later.some THEN later
             ELSE IF names[index + 1] = name THEN Some(index)
             ELSE None

\* Iterator::position: the index of the first element with this name,
\* scanning from `index`
RECURSIVE Position(_, _, _)
Position(names, name, index) ==
    IF index >= Len(names) THEN None
    ELSE IF names[index + 1] = name THEN Some(index)
    ELSE Position(names, name, index + 1)

RecipeNames(w) == [j \in 1 .. Len(w.recipes) |-> w.recipes[j].name]

resource_id_of_name(w, resource_name) == Position(w.resources, resource_name, 0)

recipe_id_of_name(w, recipe_name) == Position(RecipeNames(w), recipe_name, 0)

\* what a panic leaves in place of a name
InvalidResourceId == "panic: Invalid resource id was used"

InvalidRecipeId == "panic: Invalid recipe id was used"

name_of_resource(w, resource) ==
    IF resource \in 0 .. Len(w.resources) - 1
    THEN w.resources[resource + 1]
    ELSE InvalidResourceId

name_of_recipe(w, recipe) ==
    IF recipe \in 0 .. Len(w.recipes) - 1
    THEN w.recipes[recipe + 1].name
    ELSE InvalidRecipeId

\* ------------------------------------------------------------------------
\* Files and results of the loaders.  A file is the JSON object in it: an
\* object one of the program's three file structures was written as (type
\* names which; the object itself carries no such mark), or nothing when
\* the path has no file.  serde_json reads a structure from any object that
\* has the structure's fields with values of the fields' types, and skips
\* the other fields of the object.
\* ------------------------------------------------------------------------

Loaded(value) == [ok |-> TRUE, value |-> value]

Failed(error) == [ok |-> FALSE, error |-> error]

IoError == [type |-> "IoError", recipe_name |-> "", resource_name |-> ""]

JsonError == [type |-> "JsonError", recipe_name |-> "", resource_name |-> ""]

BadRecipeResource(recipe_name, resource_name) ==
    [type |-> "BadRecipeResource",
     recipe_name |-> recipe_name, resource_name |-> resource_name]

BadRecipeName(recipe_name) ==
    [type |-> "BadRecipeName", recipe_name |-> recipe_name, resource_name |-> ""]

BadResourceName(resource_name) ==
    [type |-> "BadResourceName", recipe_name |-> "", resource_name |-> resource_name]

\* ------------------------------------------------------------------------
\* world.rs: load_world
\* ------------------------------------------------------------------------

\* a recipe of the file; in the file per_minute and the rate of every
\* <<resource name, rate>> are the texts of JSON numbers, and in the
\* RecipeJson serde_json hands to load_world they are f64
RecipeJson(name, tags, per_minute, rates) ==
    [name |-> name, tags |-> tags, per_minute |-> per_minute, rates |-> rates]

WorldJson(resources, recipes) ==
    [type |-> "WorldJson", resources |-> resources, recipes |-> recipes]

\* what serde_json reads from each of the texts
ReadNumbers(texts) == [i \in 1 .. Len(texts) |-> JsonF64(texts[i])]

\* the numbers of a recipe of the file as read: per_minute, then the rates
RecipeNumbers(recipe_json) ==
    ReadNumbers(<<recipe_json.per_minute>>
                    \o [m \in 1 .. Len(recipe_json.rates) |-> recipe_json.rates[m][2]])

\* the RecipeJson read from a recipe of the file whose numbers read as
\* `numbers`
ReadRecipeJson(recipe_json, numbers) ==
    RecipeJson(recipe_json.name, recipe_json.tags, numbers[1].value,
               [m \in 1 .. Len(recipe_json.rates) |->
                    <<recipe_json.rates[m][1], numbers[m + 1].value>>])

\* ConvertRates that leaves out the rates whose resource is unknown
RECURSIVE ConvertRatesSkipping(_, _, _, _)
ConvertRatesSkipping(w, recipe_json, index, rates) ==
    IF index >= Len(recipe_json.rates) THEN Loaded(rates)
    ELSE LET resource_name == recipe_json.rates[index + 1][1]
             rate == recipe_json.rates[index + 1][2]
             resource_id == resource_id_of_name(w, resource_name)
         IN  ConvertRatesSkipping(
                 w, recipe_json, index + 1,
                 IF resource_id.some
                 THEN Append(rates, <<resource_id.value,
                                      F64Mul(rate, recipe_json.per_minute)>>)
                 ELSE rates)

\* the loop over one recipe's rates: names to ids, rate * per_minute as
\* the f64 product
RECURSIVE ConvertRates(_, _, _, _)
ConvertRates(w, recipe_json, index, rates) ==
    IF index >= Len(recipe_json.rates) THEN Loaded(rates)
    ELSE LET resource_name == recipe_json.rates[index + 1][1]
             rate == recipe_json.rates[index + 1][2]
             resource_id == resource_id_of_name(w, resource_name)
         IN  IF ~resource_id.some
             THEN Failed(BadRecipeResource(recipe_json.name, resource_name))
             ELSE ConvertRates(
                      w, recipe_json, index + 1,
                      Append(rates, <<resource_id.value,
                                      F64Mul(rate, recipe_json.per_minute)>>))

\* the loop over the recipes of the file, pushing each onto the world
RECURSIVE ParseRecipes(_, _, _)
ParseRecipes(w, recipes_json, index) ==
    IF index >= Len(recipes_json) THEN Loaded(w)
    ELSE LET recipe_json == recipes_json[index + 1]
             rates == ConvertRates(w, recipe_json, 0, <<>>)
         IN  IF ~rates.ok THEN rates
             ELSE ParseRecipes(
                      World(w.resources,
                            Append(w.recipes,
                                   Recipe(recipe_json.name, recipe_json.tags, rates.value))),
                      recipes_json, index + 1)

\* the file has the structure of a WorldJson: of the objects the program
\* writes, none has the field "resources"
ReadsAsWorld(file) == file.type = "WorldJson"

\* load_world on a file with the structure of a WorldJson whose numbers
\* read as `numbers`, recipe by recipe: serde_json fails on a text that is
\* no f64, and otherwise hands over the WorldJson with the f64 read
LoadWorldJson(file, numbers) ==
    IF \E k \in 1 .. Len(numbers) : \E i \in 1 .. Len(numbers[k]) : ~numbers[k][i].some
    THEN Failed(JsonError)
    ELSE ParseRecipes(World(file.resources, <<>>),
                      [k \in 1 .. Len(file.recipes) |->
                            ReadRecipeJson(file.recipes[k], numbers[k])],
                      0)

load_world(file) ==
    IF file.type = "none" THEN Failed(IoError)
    ELSE IF ~ReadsAsWorld(file) THEN Failed(JsonError)
    ELSE LoadWorldJson(file, [k \in 1 .. Len(file.recipes) |->
                                    RecipeNumbers(file.recipes[k])])

\* ------------------------------------------------------------------------
\* builder.rs: save_rule_list, load_rule_list
\* ------------------------------------------------------------------------

\* what serde_json writes for an f64: the text of a number when it is
\* finite, null otherwise
JsonNumber(rate) ==
    IF rate.kind = "finite" THEN JsonNumberText(rate) ELSE "null"

\* #[derive(Serialize)] of Constraint: the variant's name and its payload,
\* the text of a JSON value ("" for the variant without payload)
ConstraintJson(constraint) ==
    [tag |-> constraint.kind,
     payload |-> IF constraint.kind = "Unconstrained" THEN ""
                 ELSE JsonNumber(constraint.rate)]

\* #[derive(Deserialize)] of Constraint, for a payload that reads as f64
ConstraintOfJson(json) ==
    IF json.tag = "Unconstrained" THEN Unconstrained
    ELSE [kind |-> json.tag, rate |-> JsonF64(json.payload).value]

RuleJson(kind, name, constraint) ==
    [kind |-> kind, name |-> name, constraint |-> constraint]

\* what a save returns to its caller: the panic that ended it ("" when it
\* returned) and the files after it
Saved(panic, fs) == [panic |-> panic, files |-> fs]

\* the panic of the first name lookup that fails among those of the rules
\* from `index` on, "" when every id is an id of the world
RECURSIVE RuleNamesPanic(_, _, _)
RuleNamesPanic(w, rule_list, index) ==
    IF index >= Len(rule_list) THEN ""
    ELSE LET variable == rule_list[index + 1].variable
         IN  IF /\ variable.kind = "Resource"
                /\ variable.index \notin 0 .. Len(w.resources) - 1
             THEN InvalidResourceId
             ELSE IF /\ variable.kind = "Recipe"
                     /\ variable.index \notin 0 .. Len(w.recipes) - 1
             THEN InvalidRecipeId
             ELSE RuleNamesPanic(w, rule_list, index + 1)

\* the RuleListJson save_rule_list builds from the rules
RuleListJson(w, rule_list) ==
    [type |-> "RuleListJson",
     rules |->
        [k \in 1 .. Len(rule_list) |->
            IF rule_list[k].variable.kind = "Resource"
            THEN RuleJson("Resource",
                          name_of_resource(w, rule_list[k].variable.index),
                          ConstraintJson(rule_list[k].constraint))
            ELSE RuleJson("Recipe",
                          name_of_recipe(w, rule_list[k].variable.index),
                          ConstraintJson(rule_list[k].constraint))]]

\* save_rule_list builds the RuleListJson, looking up every name, and only
\* then creates the file at the path, emptying the one that is there, and
\* writes to it; a lookup that panics ends the call before that
save_rule_list(w, rule_list, path, fs) ==
    LET panic == RuleNamesPanic(w, rule_list, 0)
    IN  IF panic # "" THEN Saved(panic, fs)
        ELSE Saved("", [fs EXCEPT ![path] = RuleListJson(w, rule_list)])

\* the loop of load_rule_list over the rules of the file
RECURSIVE LoadRules(_, _, _, _)
LoadRules(w, rules_json, index, rules) ==
    IF index >= Len(rules_json) THEN Loaded(rules)
    ELSE LET rule == rules_json[index + 1]
             id == IF rule.kind = "Resource"
                   THEN resource_id_of_name(w, rule.name)
                   ELSE recipe_id_of_name(w, rule.name)
         IN  IF ~id.some
             THEN Failed(IF rule.kind = "Resource"
                         THEN BadResourceName(rule.name)
                         ELSE BadRecipeName(rule.name))
             ELSE LoadRules(
                      w, rules_json, index + 1,
                      Append(rules,
                             Rule([kind |-> rule.kind, index |-> id.value],
                                  ConstraintOfJson(rule.constraint))))

\* serde_json reads a RuleListJson from the file: of the objects the
\* program writes, only a rule list has the field "rules"; every threshold
\* has to read as f64, which null does not
ReadsAsRuleList(file) ==
    /\ file.type = "RuleListJson"
    /\ \A k \in 1 .. Len(file.rules) :
        \/ file.rules[k].constraint.tag = "Unconstrained"
        \/ JsonF64(file.rules[k].constraint.payload).some

load_rule_list(w, file) ==
    IF file.type = "none" THEN Failed(IoError)
    ELSE IF ~ReadsAsRuleList(file) THEN Failed(JsonError)
    ELSE LoadRules(w, file.rules, 0, <<>>)

\* ------------------------------------------------------------------------
\* factory.rs: save_factory, load_factory.  A rate is in the file as
\* serde_json writes it and comes out of it as serde_json reads it, which
\* is not for every f64 the rate that went in.
\* ------------------------------------------------------------------------

\* the FactoryJson save_factory builds from the Factory
FactoryJson(w, factory) ==
    [type |-> "FactoryJson",
     recipes |->
        [k \in 1 .. Len(factory) |->
            <<name_of_recipe(w, factory[k][1]), JsonNumber(factory[k][2])>>]]

\* save_factory builds the FactoryJson, looking up every name, and only
\* then creates the file at the path, emptying the one that is there, and
\* writes to it; a lookup that panics ends the call before that
save_factory(w, factory, path, fs) ==
    IF \E k \in 1 .. Len(factory) : factory[k][1] \notin 0 .. Len(w.recipes) - 1
    THEN Saved(InvalidRecipeId, fs)
    ELSE Saved("", [fs EXCEPT ![path] = FactoryJson(w, factory)])

\* the loop of load_factory over the recipes of the file
RECURSIVE LoadRecipes(_, _, _, _)
LoadRecipes(w, recipes_json, index, recipes) ==
    IF index >= Len(recipes_json) THEN Loaded(recipes)
    ELSE LET recipe_name == recipes_json[index + 1][1]
             rate == JsonF64(recipes_json[index + 1][2]).value
             recipe == recipe_id_of_name(w, recipe_name)
         IN  IF ~recipe.some THEN Failed(BadRecipeName(recipe_name))
             ELSE LoadRecipes(w, recipes_json, index + 1,
                              Append(recipes, <<recipe.value, rate>>))

\* serde_json reads a FactoryJson from the file: the field "recipes" has
\* to hold an array of [name, rate] pairs with rates that read as f64.  A
\* Factory file has the field; a rule list file has no such field; the
\* "recipes" of a world file are objects, so a world file reads as a
\* FactoryJson when it has no recipe.
ReadsAsFactory(file) ==
    \/ /\ file.type = "FactoryJson"
       /\ \A k \in 1 .. Len(file.recipes) : JsonF64(file.recipes[k][2]).some
    \/ file.type = "WorldJson" /\ file.recipes = <<>>

load_factory(w, file) ==
    IF file.type = "none" THEN Failed(IoError)
    ELSE IF ~ReadsAsFactory(file) THEN Failed(JsonError)
    ELSE LoadRecipes(w, file.recipes, 0, <<>>)

\* ------------------------------------------------------------------------
\* The inputs the model explores
\* ------------------------------------------------------------------------

Coefficients == {F64OfInt(-1), F64OfInt(1)}

Constraints ==
    {Greater(F64OfInt(-60)), Less(F64OfInt(-1)), Equal(F64OfInt(100)),
     Unconstrained}

Rules(w) == {Rule(v, c) : v \in VariableIds(w), c \in Constraints}

Optimizations(w) == VariableIds(w) \X Coefficients

SeqsUpTo(s, n) == UNION {[1 .. k -> s] : k \in 0 .. n}

\* ------------------------------------------------------------------------
\* State: one (World, Problem) pair, the call of Problem::solve on it and
\* the call of Factory::net_resources on the Factory it returned
\* ------------------------------------------------------------------------

VARIABLES
    world,      \* the World handed to solve and net_resources
    problem,    \* the Problem solve is called on
    pc,         \* "input", then "solved", then "reported"
    program,    \* the linear program solve built
    solution,   \* what the solver answered
    result,     \* the Result<Factory, String> solve returned
    resources,  \* NetResources.resources of the returned Factory
    call,       \* the library function called last, with its arguments
    ret,        \* what that call returned
    files,      \* the files the program writes and reads, by path
    page        \* SolverApp.page, the page the application shows

vars == <<world, problem, pc, program, solution, result, resources,
          call, ret, files, page>>

\* the variables of the solve of one Problem
solveVars == <<world, problem, pc, program, solution, result, resources>>

NoProgram == [objective |-> <<>>, constraints |-> <<>>]

NoSolution == [status |-> "None", values |-> <<>>, scale |-> F64OfInt(1)]

NoCall == [op |-> "none"]

NoReturn == [ok |-> FALSE]

\* the paths the program is given for the files it writes
Paths == {"save.json"}

\* the path of the world file, which the program reads
WorldPaths == {"world.json"}

\* a path with no file behind it
NoFile == [type |-> "none"]

NoFiles == [path \in Paths |-> NoFile]

NoPage == [kind |-> "none"]

Init ==
    /\ world \in Worlds
    /\ \E n \in 0 .. MaxEntries :
        \E rules \in [1 .. n -> Rules(world)] :
            \E optimizations \in SeqsUpTo(Optimizations(world), MaxEntries - n) :
                problem = Problem(rules, optimizations)
    /\ pc = "input"
    /\ program = NoProgram
    /\ solution = NoSolution
    /\ result = Err("")
    /\ resources = <<>>
    /\ call = NoCall
    /\ ret = NoReturn
    /\ files = NoFiles
    /\ page = NoPage

\* Problem::solve(&self, world)
Solve ==
    /\ pc = "input"
    /\ program' = BuildProblem(world, problem)
    /\ solution' \in MinilpSolve(program')
    /\ result' = SolveResult(world, solution')
    /\ pc' = "solved"
    /\ UNCHANGED <<world, problem, resources, call, ret, files, page>>

\* Factory::net_resources(&self, world) on the Factory solve returned
NetResources ==
    /\ pc = "solved"
    /\ result.ok
    /\ resources' = net_resources(result.factory, world)
    /\ pc' = "reported"
    /\ UNCHANGED <<world, problem, program, solution, result, call, ret, files, page>>

Next == Solve \/ NetResources

Spec == Init /\ [][Next]_vars

\* ------------------------------------------------------------------------
\* The same calls on problems of rules alone, whose thresholds are those of
\* Constraints or one large number, as typed into a threshold field: at
\* 1000000000002 and 8500000000001 the spacing of f64 (2^-12 and 2^-10) is
\* far above the sixth decimal, and 1099511627775 = 2^40 - 1 is a number
\* that rounding to six decimals moves
\* ------------------------------------------------------------------------

LargeThresholds ==
    {ParseF64("1000000000002").value, ParseF64("8500000000001").value,
     ParseF64("1099511627775").value}

LargeConstraints(threshold) == {Equal(threshold), Greater(threshold), Unconstrained}

ConstraintMenus == {Constraints} \cup {LargeConstraints(t) : t \in LargeThresholds}

LargeInit ==
    /\ world \in Worlds
    /\ \E menu \in ConstraintMenus :
        \E rules \in SeqsUpTo({Rule(v, c) : v \in VariableIds(world), c \in menu},
                              MaxEntries) :
            problem = Problem(rules, <<>>)
    /\ pc = "input"
    /\ program = NoProgram
    /\ solution = NoSolution
    /\ result = Err("")
    /\ resources = <<>>
    /\ call = NoCall
    /\ ret = NoReturn
    /\ files = NoFiles
    /\ page = NoPage

LargeSpec == LargeInit /\ [][Next]_vars

\* ------------------------------------------------------------------------
\* Single calls of the library functions that touch no file:
\* Factory::net_resources, load_world's parsing of one file, and the name
\* lookups of World
\* ------------------------------------------------------------------------

\* the longest Factory, rule list or recipe list handed to a call
MaxCall == 2

\* two recipes in a chain, with tags
ChainWorld ==
    World(<<"Ore", "Ingot">>,
          <<Recipe("Mine", <<"extract">>, << <<0, F64OfInt(60)>> >>),
            Recipe("Smelt", <<"process">>, << <<0, F64OfInt(-30)>>, <<1, F64OfInt(30)>> >>)>>)

\* a recipe that names one resource twice, and a resource nothing touches
LoopWorld ==
    World(<<"Water", "Steam", "Rock">>,
          <<Recipe("Boil", <<>>, << <<0, F64OfInt(-2)>>, <<1, F64OfInt(1)>>, <<0, F64OfInt(1)>> >>),
            Recipe("Vent", <<>>, << <<1, F64OfInt(-1)>> >>)>>)

\* names that occur twice
EchoWorld ==
    World(<<"Ore", "Ingot", "Ore">>,
          <<Recipe("Smelt", <<>>, << <<0, F64OfInt(-1)>>, <<1, F64OfInt(1)>> >>),
            Recipe("Cast", <<>>, << <<1, F64OfInt(-1)>> >>),
            Recipe("Smelt", <<>>, << <<2, F64OfInt(-1)>>, <<1, F64OfInt(1)>> >>)>>)

CallWorlds == {ChainWorld, LoopWorld, EchoWorld, ByproductWorld}

\* 0.1 and 0.2: f64 holds neither exactly, and their sum is not the f64
\* nearest to 0.3
FactoryRates == {F64OfRat(Rat(1, 10)), F64OfRat(Rat(1, 5))}

Factories(w) == SeqsUpTo((0 .. Len(w.recipes) - 1) \X FactoryRates, MaxCall)

LookupNames == {"Ore", "Ingot", "Smelt", "Cast", "Coal"}

ResourceLists == {<<>>, <<"Ore">>, <<"Ore", "Ingot">>, <<"Ore", "Ingot", "Ore">>}

\* the resource "Coal" is in no resource list
\* Halt has per_minute 0, which makes its rate -1 * 0 = -0.0; the rates of
\* Leak are products f64 rounds (-3 * 0.1) and fractions (0.5 * 0.1)
RecipeJsons ==
    {RecipeJson("Mine", <<"extract">>, "60", << <<"Ore", "1">> >>),
     RecipeJson("Smelt", <<"process">>, "30", << <<"Ore", "-1">>, <<"Ingot", "1">> >>),
     RecipeJson("Burn", <<>>, "2",
                << <<"Ore", "-1">>, <<"Coal", "-1">>, <<"Ingot", "1">> >>),
     RecipeJson("Idle", <<>>, "1", <<>>),
     RecipeJson("Halt", <<>>, "0", << <<"Ore", "-1.0">> >>),
     RecipeJson("Leak", <<>>, "0.1", << <<"Ore", "-3">>, <<"Ingot", "0.5">> >>)}

\* the files load_world is pointed at: none, a file of another structure,
\* and world files
WorldFiles ==
    {NoFile, [type |-> "FactoryJson"]}
        \cup {WorldJson(names, recipe_jsons) :
                names \in ResourceLists,
                recipe_jsons \in SeqsUpTo(RecipeJsons, MaxCall)}

\* no Problem is being solved
IdleSolve ==
    /\ world = World(<<>>, <<>>)
    /\ problem = Problem(<<>>, <<>>)
    /\ pc = "none"
    /\ program = NoProgram
    /\ solution = NoSolution
    /\ result = Err("")
    /\ resources = <<>>

CallInit ==
    /\ IdleSolve
    /\ call = NoCall
    /\ ret = NoReturn
    /\ files = NoFiles
    /\ page = NoPage

\* factory.net_resources(&world)
CallNetResources ==
    /\ \E w \in CallWorlds : \E factory \in Factories(w) :
        /\ call' = [op |-> "net_resources", world |-> w, factory |-> factory]
        /\ ret' = net_resources(factory, w)
    /\ UNCHANGED <<solveVars, files, page>>

\* load_world(path), for what the path holds
CallLoadWorld ==
    /\ \E file \in WorldFiles :
        /\ call' = [op |-> "load_world", file |-> file]
        /\ ret' = load_world(file)
    /\ UNCHANGED <<solveVars, files, page>>

\* world.resource_id_of_name(name)
CallResourceIdOfName ==
    /\ \E w \in CallWorlds : \E name \in LookupNames :
        /\ call' = [op |-> "resource_id_of_name", world |-> w, name |-> name]
        /\ ret' = resource_id_of_name(w, name)
    /\ UNCHANGED <<solveVars, files, page>>

\* world.recipe_id_of_name(name)
CallRecipeIdOfName ==
    /\ \E w \in CallWorlds : \E name \in LookupNames :
        /\ call' = [op |-> "recipe_id_of_name", world |-> w, name |-> name]
        /\ ret' = recipe_id_of_name(w, name)
    /\ UNCHANGED <<solveVars, files, page>>

\* world.name_of_resource(id), for an id of the world
CallNameOfResource ==
    /\ \E w \in CallWorlds : \E id \in 0 .. Len(w.resources) - 1 :
        /\ call' = [op |-> "name_of_resource", world |-> w, id |-> id]
        /\ ret' = name_of_resource(w, id)
    /\ UNCHANGED <<solveVars, files, page>>

\* world.name_of_recipe(id), for an id of the world
CallNameOfRecipe ==
    /\ \E w \in CallWorlds : \E id \in 0 .. Len(w.recipes) - 1 :
        /\ call' = [op |-> "name_of_recipe", world |-> w, id |-> id]
        /\ ret' = name_of_recipe(w, id)
    /\ UNCHANGED <<solveVars, files, page>>

CallNext ==
    \/ CallNetResources
    \/ CallLoadWorld
    \/ CallResourceIdOfName
    \/ CallRecipeIdOfName
    \/ CallNameOfResource
    \/ CallNameOfRecipe

CallSpec == CallInit /\ [][CallNext]_vars

\* ------------------------------------------------------------------------
\* Rule lists and Factories saved to a file and loaded from it
\* ------------------------------------------------------------------------

\* the worlds a list or a Factory is saved under and loaded under
StoreWorlds == {ChainWorld, EchoWorld}

\* 14.103100000000001: the f64 next above the one nearest to 14.1031
LongRate == ParseF64("14.103100000000001").value

\* rules on the last resource and the last recipe of w; one threshold is
\* infinite
StoredRules(w) ==
    {Rule(ResourceId(Len(w.resources) - 1), Equal(F64OfInt(100))),
     Rule(ResourceId(Len(w.resources) - 1), Less(Infinite(FALSE))),
     Rule(RecipeId(Len(w.recipes) - 1), Unconstrained)}

\* a rule list with a threshold of seventeen digits
LongRuleLists(w) == {<<Rule(RecipeId(Len(w.recipes) - 1), Greater(LongRate))>>}

\* rule lists that hold an id that is not of w, after a rule of w or alone
ForeignRuleLists(w) ==
    {<<Rule(ResourceId(Len(w.resources) - 1), Equal(F64OfInt(100))),
       Rule(ResourceId(Len(w.resources)), Unconstrained)>>,
     <<Rule(RecipeId(Len(w.recipes)), Equal(F64OfInt(100)))>>}

StoredRuleLists(w) ==
    SeqsUpTo(StoredRules(w), MaxCall) \cup LongRuleLists(w)
        \cup ForeignRuleLists(w)

\* the Factories saved under w: rates of one digit, a rate of seventeen
\* digits, and a RecipeId that is not of w
StoredFactories(w) ==
    SeqsUpTo((0 .. Len(w.recipes) - 1) \X {F64OfRat(Rat(1, 10))}, MaxCall)
        \cup {<< <<0, LongRate>> >>}
        \cup {<< <<0, F64OfInt(2)>>, <<Len(w.recipes), F64OfInt(2)>> >>}

\* a world file with no recipe
BareWorldFile == WorldJson(<<"Ore">>, <<>>)

\* a world file with a recipe
MineWorldFile ==
    WorldJson(<<"Ore">>, <<RecipeJson("Mine", <<>>, "60", << <<"Ore", "1">> >>)>>)

FileInit ==
    /\ IdleSolve
    /\ call = NoCall
    /\ ret = NoReturn
    /\ \E world_file \in {BareWorldFile, MineWorldFile} :
        files = [path \in Paths \cup WorldPaths |->
                    IF path \in WorldPaths THEN world_file ELSE NoFile]
    /\ page = NoPage

\* what a save leaves in ret: nothing that a caller reads when it returned
\* Ok(()), the panic when it did not return
SaveReturn(saved) ==
    IF saved.panic = "" THEN NoReturn ELSE [ok |-> FALSE, panic |-> saved.panic]

\* save_rule_list(&world, &rule_list, path)
SaveRuleList ==
    /\ \E w \in StoreWorlds : \E rule_list \in StoredRuleLists(w) :
        \E path \in Paths :
            LET saved == save_rule_list(w, rule_list, path, files)
            IN  /\ call' = [op |-> "save_rule_list", world |-> w,
                            rule_list |-> rule_list, path |-> path]
                /\ files' = saved.files
                /\ ret' = SaveReturn(saved)
    /\ UNCHANGED <<solveVars, page>>

\* load_rule_list(&world, path)
LoadRuleList ==
    /\ \E w \in StoreWorlds : \E path \in DOMAIN files :
        /\ call' = [op |-> "load_rule_list", world |-> w, path |-> path]
        /\ ret' = load_rule_list(w, files[path])
    /\ UNCHANGED <<solveVars, files, page>>

\* save_factory(&world, &factory, path)
SaveFactory ==
    /\ \E w \in StoreWorlds : \E factory \in StoredFactories(w) :
        \E path \in Paths :
            LET saved == save_factory(w, factory, path, files)
            IN  /\ call' = [op |-> "save_factory", world |-> w,
                            factory |-> factory, path |-> path]
                /\ files' = saved.files
                /\ ret' = SaveReturn(saved)
    /\ UNCHANGED <<solveVars, page>>

\* load_factory(&world, path)
LoadFactory ==
    /\ \E w \in StoreWorlds : \E path \in DOMAIN files :
        /\ call' = [op |-> "load_factory", world |-> w, path |-> path]
        /\ ret' = load_factory(w, files[path])
    /\ UNCHANGED <<solveVars, files, page>>

FileNext == SaveRuleList \/ LoadRuleList \/ SaveFactory \/ LoadFactory

FileSpec == FileInit /\ [][FileNext]_vars

\* ------------------------------------------------------------------------
\* pages/world.rs: LandingPage and LoadedPage
\* ------------------------------------------------------------------------

\* LandingPage::new(); feedback is the line of text under the path field
NewLandingPage ==
    [kind |-> "LandingPage",
     feedback |-> "Input the path to the world json configuration."]

\* the feedback LandingPage::show gives for a failed load_world
LoadFeedback(error) ==
    IF error.type = "IoError" THEN "Io Error"
    ELSE IF error.type = "JsonError" THEN "Invalid Json"
    ELSE "Bad resource name \"" \o error.resource_name
            \o "\" in recipe \"" \o error.recipe_name \o "\""

\* Vec::contains
Contains(s, e) == \E k \in 1 .. Len(s) : s[k] = e

\* the inner loop of LoadedPage::new: the tags of one recipe not yet listed
RECURSIVE PushTags(_, _)
PushTags(tags, recipe_tags) ==
    IF recipe_tags = <<>> THEN tags
    ELSE PushTags(IF Contains(tags, Head(recipe_tags)) THEN tags
                  ELSE Append(tags, Head(recipe_tags)),
                  Tail(recipe_tags))

\* the outer loop of LoadedPage::new over the recipes from index on
RECURSIVE CollectTags(_, _, _)
CollectTags(w, index, tags) ==
    IF index >= Len(w.recipes) THEN tags
    ELSE CollectTags(w, index + 1, PushTags(tags, w.recipes[index + 1].tags))

\* pages/mod.rs: DefaultPage, the page SolverApp::update leaves in
\* SolverApp.page while the page it took out is shown
DefaultPage == [kind |-> "DefaultPage"]

\* LoadedPage::new that hands back the placeholder
NewLoadedPagePlaceholder(w) == DefaultPage

\* LoadedPage::new(world)
NewLoadedPage(w) ==
    [kind |-> "LoadedPage",
     world |-> w,
     tags |-> CollectTags(w, 0, <<>>),
     included |-> [k \in 1 .. Len(w.recipes) |-> TRUE]]

\* filter_map that collects from the last recipe to the first
RECURSIVE IncludedRecipesReversed(_, _, _)
IncludedRecipesReversed(recipes, included, index) ==
    IF index >= Len(recipes) THEN <<>>
    ELSE IncludedRecipesReversed(recipes, included, index + 1)
            \o (IF included[index + 1] THEN <<recipes[index + 1]>> ELSE <<>>)

\* the filter_map of filter_world over the recipes from index on
RECURSIVE IncludedRecipes(_, _, _)
IncludedRecipes(recipes, included, index) ==
    IF index >= Len(recipes) THEN <<>>
    ELSE (IF included[index + 1] THEN <<recipes[index + 1]>> ELSE <<>>)
            \o IncludedRecipes(recipes, included, index + 1)

\* LoadedPage::filter_world(self)
filter_world(loaded) ==
    World(loaded.world.resources,
          IncludedRecipes(loaded.world.recipes, loaded.included, 0))

\* the loop of a tag's Add (to = TRUE) and Remove (to = FALSE) buttons
SetTagged(loaded, tag, to) ==
    [k \in 1 .. Len(loaded.included) |->
        IF Contains(loaded.world.recipes[k].tags, tag) THEN to
        ELSE loaded.included[k]]

\* ------------------------------------------------------------------------
\* pages/factory.rs: EditFactoryPage
\* ------------------------------------------------------------------------

\* EditFactoryPage::new(world, factory)
NewEditFactoryPage(w, factory) ==
    [kind |-> "EditFactoryPage",
     world |-> w,
     factory |-> factory,
     resources |-> net_resources(factory, w)]

\* OpenFactory that opens the page on an empty Factory
OpenFactoryEmpty(loaded, factory) ==
    NewEditFactoryPage(loaded.world, <<>>)

\* Open Factory of LoadedPage, for the Factory load_factory returned
OpenFactory(loaded, factory) ==
    NewEditFactoryPage(loaded.world, factory)

\* ------------------------------------------------------------------------
\* pages/builder.rs: text fields, RuleBuilder
\* ------------------------------------------------------------------------

\* Option<VariableId>::None
NoVariable == [kind |-> "None", index |-> 0]

\* the entries of a variable ComboBox: every resource and every recipe of
\* the page's world, numbered from one
SelectableOneBased(w) ==
    {ResourceId(i) : i \in 1 .. Len(w.resources)}
        \cup {RecipeId(i) : i \in 1 .. Len(w.recipes)}

\* the entries of a variable ComboBox: every resource and every recipe of
\* the page's world, by enumerate()
Selectable(w) ==
    {ResourceId(i) : i \in 0 .. Len(w.resources) - 1}
        \cup {RecipeId(i) : i \in 0 .. Len(w.recipes) - 1}

\* Option<RuleBuilder>::None
NoBuilder == [open |-> FALSE]

RuleBuilder(selected_variable, constraint, rate) ==
    [open |-> TRUE, selected_variable |-> selected_variable,
     constraint |-> constraint, rate |-> rate]

\* RuleBuilder::new()
NewRuleBuilder == RuleBuilder(NoVariable, Equal(Zero(FALSE)), "0")

\* the entries of the constraint ComboBox of a RuleBuilder
SelectableConstraints ==
    {Less(Zero(FALSE)), Equal(Zero(FALSE)), Greater(Zero(FALSE)), Unconstrained}

\* RuleBuilder::build(&self): Some(rule) or None
build(rule_builder) ==
    LET parse_rate == ParseF64(rule_builder.rate)
    IN  IF rule_builder.constraint.kind # "Unconstrained" /\ ~parse_rate.some
        THEN None
        ELSE IF rule_builder.selected_variable = NoVariable THEN None
        ELSE Some(Rule(rule_builder.selected_variable,
                       IF rule_builder.constraint.kind = "Unconstrained"
                       THEN Unconstrained
                       ELSE [kind |-> rule_builder.constraint.kind,
                             rate |-> parse_rate.value]))

\* EditBuilder that leaves the rate field at what a new rule builder shows
EditBuilderNewRate(rule) ==
    RuleBuilder(rule.variable, rule.constraint, NewRuleBuilder.rate)

\* the RuleBuilder the Edit button of a rule puts in place
EditBuilder(rule) ==
    RuleBuilder(rule.variable, rule.constraint,
                FormatF64(IF rule.constraint.kind = "Unconstrained"
                          THEN Zero(FALSE)
                          ELSE rule.constraint.rate))

\* ------------------------------------------------------------------------
\* pages/builder.rs: BuildFactoryPage
\* ------------------------------------------------------------------------

\* Result<(Factory, NetResources), String>
SolutionOk(factory, net) ==
    [ok |-> TRUE, factory |-> factory, resources |-> net, error |-> ""]

SolutionErr(error) ==
    [ok |-> FALSE, factory |-> <<>>, resources |-> <<>>, error |-> error]

\* BuildFactoryPage::new(world)
NewBuildFactoryPage(w) ==
    [kind |-> "BuildFactoryPage",
     world |-> w,
     rule_lists |-> <<>>,
     rule_list_id_incrementor |-> 0,
     optimizations |-> <<>>,
     optimization_id_incrementor |-> 0,
     solution |-> SolutionErr("")]

\* an element of rule_lists: (ui id, RuleList, Option<RuleBuilder>)
RuleListEntry(id, rules, builder) ==
    [id |-> id, rules |-> rules, builder |-> builder]

\* an element of optimizations: (ui id, Option<VariableId>, String)
OptimizationEntry(id, variable, bias) ==
    [id |-> id, variable |-> variable, bias |-> bias]

\* Vec::swap on the elements at 0-based i and j
Swap(s, i, j) == [s EXCEPT ![i + 1] = s[j + 1], ![j + 1] = s[i + 1]]

\* Vec::remove of the element at 0-based i
Remove(s, i) == SubSeq(s, 1, i) \o SubSeq(s, i + 2, Len(s))

\* MoveUp that takes the first list to the end
MoveUpWrapping(rule_lists, up) ==
    Swap(rule_lists, up, IF up = 0 THEN Len(rule_lists) - 1 ELSE up - 1)

\* Up of the rule list at index up: nothing for the first list
MoveUp(rule_lists, up) ==
    IF up = 0 THEN rule_lists ELSE Swap(rule_lists, up, up - 1)

\* Down of the rule list at index down: nothing for the last list
MoveDown(rule_lists, down) ==
    IF down + 1 >= Len(rule_lists) THEN rule_lists
    ELSE Swap(rule_lists, down, down + 1)

\* rule_lists.push((rule_list_id_incrementor, rule_list, None)) and the
\* increment after it
PushRuleList(p, rule_list) ==
    [p EXCEPT
        !.rule_lists = Append(@, RuleListEntry(p.rule_list_id_incrementor,
                                               rule_list, NoBuilder)),
        !.rule_list_id_incrementor = @ + 1]

\* Solve: the rules of all rule lists from index on, list after list
RECURSIVE ProblemRules(_, _)
ProblemRules(rule_lists, index) ==
    IF index >= Len(rule_lists) THEN <<>>
    ELSE rule_lists[index + 1].rules \o ProblemRules(rule_lists, index + 1)

\* ProblemOptimizations that reads the text before it looks at the variable
RECURSIVE ProblemOptimizationsParseFirst(_, _, _)
ProblemOptimizationsParseFirst(optimizations, index, acc) ==
    IF index >= Len(optimizations) THEN Loaded(acc)
    ELSE LET entry == optimizations[index + 1]
             rate == ParseF64(entry.bias)
         IN  IF ~rate.some
             THEN Failed("Invalid number \"" \o entry.bias \o "\" in optimization")
             ELSE IF entry.variable = NoVariable
             THEN ProblemOptimizationsParseFirst(optimizations, index + 1, acc)
             ELSE ProblemOptimizationsParseFirst(
                      optimizations, index + 1,
                      Append(acc, <<entry.variable, rate.value>>))

\* Solve: the loop over the optimizations from index on; it stops at the
\* first selected variable whose text is no number
RECURSIVE ProblemOptimizations(_, _, _)
ProblemOptimizations(optimizations, index, acc) ==
    IF index >= Len(optimizations) THEN Loaded(acc)
    ELSE LET entry == optimizations[index + 1]
             rate == ParseF64(entry.bias)
         IN  IF entry.variable = NoVariable
             THEN ProblemOptimizations(optimizations, index + 1, acc)
             ELSE IF ~rate.some
             THEN Failed("Invalid number \"" \o entry.bias \o "\" in optimization")
             ELSE ProblemOptimizations(optimizations, index + 1,
                                       Append(acc, <<entry.variable, rate.value>>))

\* Solve: the solution the page keeps for one answer of the solver
PageSolution(w, answer) ==
    LET solved == SolveResult(w, answer)
    IN  IF solved.ok
        THEN SolutionOk(solved.factory, net_resources(solved.factory, w))
        ELSE SolutionErr(solved.error)

\* ------------------------------------------------------------------------
\* The application: SolverApp.page and the files, under the user's actions.
\* One action is one frame in which one widget is used.
\* ------------------------------------------------------------------------

\* the most input a BuildFactoryPage is given: one for each rule list and
\* each optimization it ever added, one for each rule and rule builder it
\* holds, and one more for each field of these that is not what a new rule
\* builder or a new optimization shows
MaxInput == 4

\* the world files the user points the LandingPage at
AppWorldFile ==
    WorldJson(<<"Slag">>,
              <<RecipeJson("Use", <<"basic", "sink">>, "1", << <<"Slag", "-7">> >>),
                RecipeJson("Make", <<"basic">>, "1", << <<"Slag", "2">> >>)>>)

\* a world file whose recipe names a resource that is not listed
BrokenWorldFile ==
    WorldJson(<<"Slag">>,
              <<RecipeJson("Burn", <<>>, "1", << <<"Coal", "-1">> >>)>>)

\* what the world file of the application is
AppWorldFiles == {AppWorldFile, BrokenWorldFile, BareWorldFile}

\* a Factory file an earlier run of the application saved
StoredFactoryFile ==
    [type |-> "FactoryJson", recipes |-> << <<"Make", "2.0">> >>]

\* a rule list file an earlier run of the application saved
StoredRuleListFile ==
    [type |-> "RuleListJson",
     rules |-> <<RuleJson("Recipe", "Make", ConstraintJson(Equal(F64OfInt(1))))>>]

\* what the application finds at the paths it writes when it starts
StoredFiles == {StoredFactoryFile, StoredRuleListFile}

\* the process ended by a panic: no page is shown any more
Panicked(panic) == [kind |-> "panic", message |-> panic]

\* what the text fields of rates and coefficients are given
Texts == {"1", "x"}

\* the input held by a selected variable, a constraint and a text field
FieldInput(selected_variable, constraint, text) ==
    (IF selected_variable # NoVariable THEN 1 ELSE 0)
        + (IF constraint.kind # NewRuleBuilder.constraint.kind THEN 1 ELSE 0)
        + (IF text # "0" THEN 1 ELSE 0)

BuilderInput(builder) ==
    IF builder.open
    THEN 1 + FieldInput(builder.selected_variable, builder.constraint, builder.rate)
    ELSE 0

\* a rule holds the input of the rule builder its Edit button opens: the
\* builder, the variable, and a constraint and a threshold that are not
\* those of a new rule builder
RuleInput(rule) ==
    2 + (IF rule.constraint.kind # NewRuleBuilder.constraint.kind THEN 1 ELSE 0)
      + (IF rule.constraint.rate # NewRuleBuilder.constraint.rate THEN 1 ELSE 0)

RECURSIVE RulesInput(_)
RulesInput(rules) ==
    IF rules = <<>> THEN 0
    ELSE RuleInput(Head(rules)) + RulesInput(Tail(rules))

RECURSIVE RuleListsInput(_)
RuleListsInput(rule_lists) ==
    IF rule_lists = <<>> THEN 0
    ELSE RulesInput(Head(rule_lists).rules)
           + BuilderInput(Head(rule_lists).builder)
           + RuleListsInput(Tail(rule_lists))

RECURSIVE OptimizationsInput(_)
OptimizationsInput(optimizations) ==
    IF optimizations = <<>> THEN 0
    ELSE FieldInput(Head(optimizations).variable, NewRuleBuilder.constraint,
                    Head(optimizations).bias)
           + OptimizationsInput(Tail(optimizations))

\* the input a BuildFactoryPage was given
Input(p) ==
    p.rule_list_id_incrementor + p.optimization_id_incrementor
        + RuleListsInput(p.rule_lists) + OptimizationsInput(p.optimizations)

AppInit ==
    /\ IdleSolve
    /\ call = NoCall
    /\ ret = NoReturn
    /\ \E world_file \in AppWorldFiles : \E file \in StoredFiles :
        files = [path \in Paths \cup WorldPaths |->
                    IF path \in WorldPaths THEN world_file ELSE file]
    /\ page = NewLandingPage

appIdle == <<solveVars, call, ret>>

\* LandingPage: the path field is edited
LandingType ==
    /\ page.kind = "LandingPage"
    /\ \E exists \in BOOLEAN :
        page' = [page EXCEPT !.feedback = IF exists THEN "Valid path."
                                          ELSE "Invalid path."]
    /\ UNCHANGED <<appIdle, files>>

\* LandingPage: Load, enabled once the path field named a file
LandingLoad ==
    /\ page.kind = "LandingPage"
    /\ page.feedback # NewLandingPage.feedback
    /\ page.feedback # "Invalid path."
    /\ \E path \in DOMAIN files :
        LET loaded == load_world(files[path])
        IN  page' = IF loaded.ok THEN NewLoadedPage(loaded.value)
                    ELSE [page EXCEPT !.feedback = LoadFeedback(loaded.error)]
    /\ UNCHANGED <<appIdle, files>>

\* LoadedPage: Back
LoadedBack ==
    /\ page.kind = "LoadedPage"
    /\ page' = NewLandingPage
    /\ UNCHANGED <<appIdle, files>>

\* LoadedPage: Build
LoadedBuild ==
    /\ page.kind = "LoadedPage"
    /\ page' = NewBuildFactoryPage(filter_world(page))
    /\ UNCHANGED <<appIdle, files>>

\* LoadedPage: Open Factory, with a path in open_field
LoadedOpenFactory ==
    /\ page.kind = "LoadedPage"
    /\ \E path \in DOMAIN files :
        LET loaded == load_factory(page.world, files[path])
        IN  page' = IF loaded.ok THEN OpenFactory(page, loaded.value) ELSE page
    /\ UNCHANGED <<appIdle, files>>

\* LoadedPage: Add all
LoadedAddAll ==
    /\ page.kind = "LoadedPage"
    /\ page' = [page EXCEPT !.included = [k \in DOMAIN @ |-> TRUE]]
    /\ UNCHANGED <<appIdle, files>>

\* LoadedPage: Remove all
LoadedRemoveAll ==
    /\ page.kind = "LoadedPage"
    /\ page' = [page EXCEPT !.included = [k \in DOMAIN @ |-> FALSE]]
    /\ UNCHANGED <<appIdle, files>>

\* LoadedPage: Add of a tag
LoadedTagAdd ==
    /\ page.kind = "LoadedPage"
    /\ \E t \in 1 .. Len(page.tags) :
        page' = [page EXCEPT !.included = SetTagged(page, page.tags[t], TRUE)]
    /\ UNCHANGED <<appIdle, files>>

\* LoadedPage: Remove of a tag
LoadedTagRemove ==
    /\ page.kind = "LoadedPage"
    /\ \E t \in 1 .. Len(page.tags) :
        page' = [page EXCEPT !.included = SetTagged(page, page.tags[t], FALSE)]
    /\ UNCHANGED <<appIdle, files>>

\* LoadedPage: the checkbox of a recipe
LoadedCheckbox ==
    /\ page.kind = "LoadedPage"
    /\ \E k \in 1 .. Len(page.included) :
        page' = [page EXCEPT !.included[k] = ~@]
    /\ UNCHANGED <<appIdle, files>>

\* BuildFactoryPage: New List
BuildNewList ==
    /\ page.kind = "BuildFactoryPage"
    /\ page' = PushRuleList(page, <<>>)
    /\ Input(page') <= MaxInput
    /\ UNCHANGED <<appIdle, files>>

\* BuildFactoryPage: Load List, with a path in path_field
BuildLoadList ==
    /\ page.kind = "BuildFactoryPage"
    /\ \E path \in DOMAIN files :
        LET loaded == load_rule_list(page.world, files[path])
        IN  page' = IF loaded.ok THEN PushRuleList(page, loaded.value) ELSE page
    /\ Input(page') <= MaxInput
    /\ UNCHANGED <<appIdle, files>>

\* BuildFactoryPage: Up of the rule list at index
BuildUp ==
    /\ page.kind = "BuildFactoryPage"
    /\ \E index \in 0 .. Len(page.rule_lists) - 1 :
        page' = [page EXCEPT !.rule_lists = MoveUp(@, index)]
    /\ UNCHANGED <<appIdle, files>>

\* BuildFactoryPage: Down of the rule list at index
BuildDown ==
    /\ page.kind = "BuildFactoryPage"
    /\ \E index \in 0 .. Len(page.rule_lists) - 1 :
        page' = [page EXCEPT !.rule_lists = MoveDown(@, index)]
    /\ UNCHANGED <<appIdle, files>>

\* BuildFactoryPage: Delete of the rule list at index
BuildDelete ==
    /\ page.kind = "BuildFactoryPage"
    /\ \E index \in 0 .. Len(page.rule_lists) - 1 :
        page' = [page EXCEPT !.rule_lists = Remove(@, index)]
    /\ UNCHANGED <<appIdle, files>>

\* BuildFactoryPage: Save of the rule list at index, with a path in
\* path_field
BuildSave ==
    /\ page.kind = "BuildFactoryPage"
    /\ \E index \in 0 .. Len(page.rule_lists) - 1 : \E path \in Paths :
        LET saved == save_rule_list(page.world, page.rule_lists[index + 1].rules,
                                    path, files)
        IN  /\ files' = saved.files
            /\ page' = IF saved.panic = "" THEN page ELSE Panicked(saved.panic)
    /\ UNCHANGED appIdle

\* BuildFactoryPage: Add Rule of a rule list, shown while it has no builder
BuildAddRule ==
    /\ page.kind = "BuildFactoryPage"
    /\ \E index \in 0 .. Len(page.rule_lists) - 1 :
        /\ ~page.rule_lists[index + 1].builder.open
        /\ page' = [page EXCEPT !.rule_lists[index + 1].builder = NewRuleBuilder]
    /\ Input(page') <= MaxInput
    /\ UNCHANGED <<appIdle, files>>

\* RuleBuilder::show: an entry of the variable ComboBox is picked
BuildSelectVariable ==
    /\ page.kind = "BuildFactoryPage"
    /\ \E index \in 0 .. Len(page.rule_lists) - 1 :
        /\ page.rule_lists[index + 1].builder.open
        /\ \E variable \in Selectable(page.world) :
            page' = [page EXCEPT
                        !.rule_lists[index + 1].builder.selected_variable = variable]
    /\ Input(page') <= MaxInput
    /\ UNCHANGED <<appIdle, files>>

\* RuleBuilder::show: an entry of the constraint ComboBox is picked
BuildSelectConstraint ==
    /\ page.kind = "BuildFactoryPage"
    /\ \E index \in 0 .. Len(page.rule_lists) - 1 :
        /\ page.rule_lists[index + 1].builder.open
        /\ \E constraint \in SelectableConstraints :
            page' = [page EXCEPT
                        !.rule_lists[index + 1].builder.constraint = constraint]
    /\ Input(page') <= MaxInput
    /\ UNCHANGED <<appIdle, files>>

\* RuleBuilder::show: the rate field, shown unless the constraint is
\* Unconstrained, is edited
BuildTypeRate ==
    /\ page.kind = "BuildFactoryPage"
    /\ \E index \in 0 .. Len(page.rule_lists) - 1 :
        /\ page.rule_lists[index + 1].builder.open
        /\ page.rule_lists[index + 1].builder.constraint.kind # "Unconstrained"
        /\ \E text \in Texts :
            page' = [page EXCEPT !.rule_lists[index + 1].builder.rate = text]
    /\ Input(page') <= MaxInput
    /\ UNCHANGED <<appIdle, files>>

\* BuildFactoryPage: Cancel of a rule builder
BuildCancel ==
    /\ page.kind = "BuildFactoryPage"
    /\ \E index \in 0 .. Len(page.rule_lists) - 1 :
        /\ page.rule_lists[index + 1].builder.open
        /\ page' = [page EXCEPT !.rule_lists[index + 1].builder = NoBuilder]
    /\ UNCHANGED <<appIdle, files>>

\* BuildFactoryPage: Add of a rule builder
BuildAdd ==
    /\ page.kind = "BuildFactoryPage"
    /\ \E index \in 0 .. Len(page.rule_lists) - 1 :
        /\ page.rule_lists[index + 1].builder.open
        /\ LET rule == build(page.rule_lists[index + 1].builder)
           IN  IF rule.some
               THEN page' = [page EXCEPT
                                  !.rule_lists[index + 1].rules = Append(@, rule.value),
                                  !.rule_lists[index + 1].builder = NoBuilder]
               ELSE page' = page
    /\ UNCHANGED <<appIdle, files>>

\* BuildFactoryPage: Edit of the rule at position k of a rule list
BuildEditRule ==
    /\ page.kind = "BuildFactoryPage"
    /\ \E index \in 0 .. Len(page.rule_lists) - 1 :
        \E k \in 0 .. Len(page.rule_lists[index + 1].rules) - 1 :
            page' = [page EXCEPT
                        !.rule_lists[index + 1].builder =
                            EditBuilder(page.rule_lists[index + 1].rules[k + 1]),
                        !.rule_lists[index + 1].rules = Remove(@, k)]
    /\ UNCHANGED <<appIdle, files>>

\* BuildFactoryPage: New of the optimizations
BuildNewOptimization ==
    /\ page.kind = "BuildFactoryPage"
    /\ page' = [page EXCEPT
                  !.optimizations =
                      Append(@, OptimizationEntry(page.optimization_id_incrementor,
                                                  NoVariable, "0")),
                  !.optimization_id_incrementor = @ + 1]
    /\ Input(page') <= MaxInput
    /\ UNCHANGED <<appIdle, files>>

\* BuildFactoryPage: Delete in the ComboBox of an optimization
BuildDeleteOptimization ==
    /\ page.kind = "BuildFactoryPage"
    /\ \E index \in 0 .. Len(page.optimizations) - 1 :
        page' = [page EXCEPT !.optimizations = Remove(@, index)]
    /\ UNCHANGED <<appIdle, files>>

\* BuildFactoryPage: a variable is picked in the ComboBox of an optimization
BuildSelectOptimization ==
    /\ page.kind = "BuildFactoryPage"
    /\ \E index \in 0 .. Len(page.optimizations) - 1 :
        \E variable \in Selectable(page.world) :
            page' = [page EXCEPT !.optimizations[index + 1].variable = variable]
    /\ Input(page') <= MaxInput
    /\ UNCHANGED <<appIdle, files>>

\* BuildFactoryPage: the coefficient field of an optimization is edited
BuildTypeBias ==
    /\ page.kind = "BuildFactoryPage"
    /\ \E index \in 0 .. Len(page.optimizations) - 1 : \E text \in Texts :
        page' = [page EXCEPT !.optimizations[index + 1].bias = text]
    /\ Input(page') <= MaxInput
    /\ UNCHANGED <<appIdle, files>>

\* BuildFactoryPage: Solve
BuildSolve ==
    /\ page.kind = "BuildFactoryPage"
    /\ LET optimizations == ProblemOptimizations(page.optimizations, 0, <<>>)
       IN  IF ~optimizations.ok
           THEN page' = [page EXCEPT !.solution = SolutionErr(optimizations.error)]
           ELSE \E answer \in MinilpSolve(BuildProblem(
                                page.world,
                                Problem(ProblemRules(page.rule_lists, 0),
                                        optimizations.value))) :
                    page' = [page EXCEPT
                                !.solution = PageSolution(page.world, answer)]
    /\ UNCHANGED <<appIdle, files>>

\* BuildFactoryPage: Edit, shown while the solution is Ok
BuildEdit ==
    /\ page.kind = "BuildFactoryPage"
    /\ page.solution.ok
    /\ page' = NewEditFactoryPage(page.world, page.solution.factory)
    /\ UNCHANGED <<appIdle, files>>

\* EditFactoryPage: Save, with a path in save_path
EditSave ==
    /\ page.kind = "EditFactoryPage"
    /\ \E path \in Paths :
        LET saved == save_factory(page.world, page.factory, path, files)
        IN  /\ files' = saved.files
            /\ page' = IF saved.panic = "" THEN page ELSE Panicked(saved.panic)
    /\ UNCHANGED appIdle

AppNext ==
    \/ LandingType \/ LandingLoad
    \/ LoadedBack \/ LoadedBuild \/ LoadedOpenFactory
    \/ LoadedAddAll \/ LoadedRemoveAll \/ LoadedTagAdd \/ LoadedTagRemove
    \/ LoadedCheckbox
    \/ BuildNewList \/ BuildLoadList \/ BuildUp \/ BuildDown \/ BuildDelete
    \/ BuildSave \/ BuildAddRule \/ BuildSelectVariable \/ BuildSelectConstraint
    \/ BuildTypeRate \/ BuildCancel \/ BuildAdd \/ BuildEditRule
    \/ BuildNewOptimization \/ BuildDeleteOptimization \/ BuildSelectOptimization
    \/ BuildTypeBias \/ BuildSolve \/ BuildEdit
    \/ EditSave

AppSpec == AppInit /\ [][AppNext]_vars

\* ------------------------------------------------------------------------
\* One rule list of a BuildFactoryPage under Edit, Add and Cancel
\* ------------------------------------------------------------------------

\* the most rules the list holds when the model starts
MaxRules == 3

\* the rules the list is made of: a threshold f64 holds only nearly, an
\* infinite one, none, a negative one, one of seventeen digits, and one
\* that is not a number
EditRules ==
    {Rule(ResourceId(0), Equal(F64OfRat(Rat(1, 10)))),
     Rule(RecipeId(1), Less(Infinite(FALSE))),
     Rule(RecipeId(0), Unconstrained),
     Rule(RecipeId(0), Greater(F64OfInt(-60))),
     Rule(ResourceId(0), Equal(LongRate)),
     Rule(RecipeId(1), Greater(NAN))}

\* a BuildFactoryPage on the whole world of AppWorldFile with one rule list
RuleInit ==
    /\ IdleSolve
    /\ call = NoCall
    /\ ret = NoReturn
    /\ files = NoFiles
    /\ \E rule_list \in SeqsUpTo(EditRules, MaxRules) :
        page = PushRuleList(NewBuildFactoryPage(load_world(AppWorldFile).value),
                            rule_list)

RuleNext == BuildEditRule \/ BuildAdd \/ BuildCancel

RuleSpec == RuleInit /\ [][RuleNext]_vars

\* ------------------------------------------------------------------------
\* Vocabulary of the properties
\* ------------------------------------------------------------------------

ResourceIndices == 0 .. Len(world.resources) - 1

RecipeIndices == 0 .. Len(world.recipes) - 1

\* some rule of the problem names resource i
Ruled(i) ==
    \E k \in 1 .. Len(problem.rules) : problem.rules[k].variable = ResourceId(i)

\* the recipe throughputs of the solver's answer, before rounding
Throughputs == [j \in 1 .. Len(world.recipes) |-> solution.values[Len(world.resources) + j]]

Solved == pc # "input"

\* the product of two rationals
RatMul(p, q) ==
    LET a == Gcd(p.n, q.d)
        b == Gcd(q.n, p.d)
    IN  Rat((p.n \div a) * (q.n \div b), (p.d \div b) * (q.d \div a))

\* the net flow of resource i under recipe throughputs x (x[j + 1] is the
\* throughput of recipe j): the sum of rate * throughput over every rate
\* entry of the catalog that names i
NetFlow(x, i) ==
    RatSumSeq([j \in 1 .. Len(world.recipes) |->
        RatSumSeq([k \in 1 .. Len(world.recipes[j].rates) |->
            IF world.recipes[j].rates[k][1] = i
            THEN RatMul(x[j], RatOfF64(world.recipes[j].rates[k][2]))
            ELSE RatOfInt(0)])])

\* the f64 sum of a sequence of f64, added in order from 0.0
RECURSIVE F64SumSeq(_)
F64SumSeq(s) ==
    IF s = <<>> THEN Zero(FALSE)
    ELSE F64Add(F64SumSeq(SubSeq(s, 1, Len(s) - 1)), s[Len(s)])

\* Exact numbers (-1)^neg * m * 2^e, m any natural number: what finite f64
\* are, and their sums and multiples, with no rounding
Dyadic(neg, m, e) == [neg |-> neg, m |-> m, e |-> e]

DyadicOf(x) == Dyadic(x.neg, x.m, x.e)

DyadicAbs(a) == Dyadic(FALSE, a.m, a.e)

DyadicNeg(a) == Dyadic(~a.neg, a.m, a.e)

\* (-1)^an * am * 2^e + (-1)^bn * bm * 2^e
DyadicSumAt(an, am, bn, bm, e) ==
    IF an = bn THEN Dyadic(an, BigAdd(am, bm), e)
    ELSE IF BigLess(am, bm) THEN Dyadic(bn, BigSub(bm, am), e)
    ELSE Dyadic(an, BigSub(am, bm), e)

DyadicSumOver(a, b, e) ==
    DyadicSumAt(a.neg, BigShl(a.m, a.e - e), b.neg, BigShl(b.m, b.e - e), e)

\* a + b
DyadicSum(a, b) == DyadicSumOver(a, b, IF a.e < b.e THEN a.e ELSE b.e)

\* a * n * 2^k for a natural number n
DyadicTimes(a, n, k) == Dyadic(a.neg, BigMul(a.m, BigOfNat(n)), a.e + k)

DyadicNotBelowZero(a) == a.m = <<>> \/ ~a.neg

\* a <= b
DyadicLeq(a, b) == DyadicNotBelowZero(DyadicSum(b, DyadicNeg(a)))

\* the sum of a sequence of exact numbers
RECURSIVE DyadicSumSeq(_)
DyadicSumSeq(s) ==
    IF s = <<>> THEN Dyadic(FALSE, <<>>, 0)
    ELSE DyadicSum(DyadicSumSeq(SubSeq(s, 1, Len(s) - 1)), s[Len(s)])

\* ------------------------------------------------------------------------
\* C1  Default balance
\* ------------------------------------------------------------------------

DefaultBalanceConstraint(i) ==
    LinearConstraint(<< <<i, F64OfInt(1)>> >>, "Eq", Zero(FALSE))

\* the constraints solve added after those of the rules
TrailingConstraints ==
    LET emitted == Cardinality({k \in 1 .. Len(problem.rules) :
                        problem.rules[k].constraint.kind # "Unconstrained"})
    IN  SubSeq(program.constraints,
               Len(world.resources) + Len(world.recipes) + emitted + 1,
               Len(program.constraints))

\* C1: solve adds the equality "net-flow variable = 0" once for every
\* resource that no rule targets and for no resource that a rule targets,
\* and in every Ok result the unrounded solution gives every un-ruled
\* resource a net flow (sum of rate * throughput) of exactly 0.
C1_DefaultBalance ==
    Solved =>
        /\ \A i \in ResourceIndices :
            Cardinality({k \in 1 .. Len(TrailingConstraints) :
                            TrailingConstraints[k] = DefaultBalanceConstraint(i)})
                = IF Ruled(i) THEN 0 ELSE 1
        /\ Len(TrailingConstraints)
            = Cardinality({i \in ResourceIndices : ~Ruled(i)})
        /\ solution.status = "Ok" =>
            \A i \in ResourceIndices :
                ~Ruled(i) => NetFlow(Throughputs, i) = RatOfInt(0)

\* an Ok solve in which an un-ruled resource couples two running recipes
C1_Witness ==
    /\ pc = "solved"
    /\ solution.status = "Ok"
    /\ \E i \in ResourceIndices :
        /\ ~Ruled(i)
        /\ \E j1, j2 \in 1 .. Len(world.recipes) :
            /\ j1 # j2
            /\ Throughputs[j1].n # 0
            /\ Throughputs[j2].n # 0
            /\ \E k \in 1 .. Len(world.recipes[j1].rates) :
                world.recipes[j1].rates[k][1] = i
            /\ \E k \in 1 .. Len(world.recipes[j2].rates) :
                world.recipes[j2].rates[k][1] = i

\* ------------------------------------------------------------------------
\* C2  Scenario A
\* ------------------------------------------------------------------------

\* the net rates of the report, in catalog order
NetRates == [i \in 1 .. Len(resources) |-> resources[i][1]]

\* rule Greater(-60) on Ore, maximise Ingot with coefficient 1
ScenarioA ==
    Problem(<<Rule(ResourceId(0), Greater(F64OfInt(-60)))>>,
            << <<ResourceId(1), F64OfInt(1)>> >>)

\* scenario A with Ingot exempted from the default balance
ScenarioAExempt ==
    Problem(<<Rule(ResourceId(0), Greater(F64OfInt(-60))),
              Rule(ResourceId(1), Unconstrained)>>,
            << <<ResourceId(1), F64OfInt(1)>> >>)

\* C2 as stated: on scenario A solve returns Ok([(Smelt, 2.0)]) and
\* net_resources reports Ore = -60 and Ingot = +60.
C2_ScenarioA_AsStated ==
    (Solved /\ world = SmeltWorld /\ problem = ScenarioA) =>
        /\ result = Ok(<< <<0, F64OfInt(2)>> >>)
        /\ pc = "reported" => NetRates = <<F64OfInt(-60), F64OfInt(60)>>

\* C2 amended: on scenario A as given, Ingot has no rule and is balanced to
\* 0, so solve returns Ok with an empty Factory and net_resources reports
\* Ore = 0 and Ingot = 0; with an Unconstrained rule on Ingot added, solve
\* returns Ok([(Smelt, 2.0)]) and the report is Ore = -60, Ingot = +60.
C2_ScenarioA ==
    /\ (Solved /\ world = SmeltWorld /\ problem = ScenarioA) =>
        /\ result = Ok(<<>>)
        /\ pc = "reported" => NetRates = <<Zero(FALSE), Zero(FALSE)>>
    /\ (Solved /\ world = SmeltWorld /\ problem = ScenarioAExempt) =>
        /\ result = Ok(<< <<0, F64OfInt(2)>> >>)
        /\ pc = "reported" => NetRates = <<F64OfInt(-60), F64OfInt(60)>>

\* scenario A solved and reported
C2_Witness ==
    /\ pc = "reported"
    /\ world = SmeltWorld
    /\ problem = ScenarioA
    /\ result.factory = <<>>

\* ------------------------------------------------------------------------
\* C3  Scenario C
\* ------------------------------------------------------------------------

\* no recipe of the catalog consumes resource i
NotConsumed(i) ==
    \A j \in 1 .. Len(world.recipes) :
        \A k \in 1 .. Len(world.recipes[j].rates) :
            world.recipes[j].rates[k][1] = i
            => ~F64Less(world.recipes[j].rates[k][2], Zero(FALSE))

\* some recipe of the catalog produces resource i
Produced(i) ==
    \E j \in 1 .. Len(world.recipes) :
        \E k \in 1 .. Len(world.recipes[j].rates) :
            /\ world.recipes[j].rates[k][1] = i
        /\ F64Less(Zero(FALSE), world.recipes[j].rates[k][2])

\* the case of scenario C: resource i is produced, never consumed, un-ruled
\* and the one thing the problem maximises
ScenarioC(i) ==
    /\ NotConsumed(i)
    /\ Produced(i)
    /\ ~Ruled(i)
    /\ problem.optimizations = << <<ResourceId(i), F64OfInt(1)>> >>

\* C3 as stated: in the case of scenario C solve returns the error
\* "Unbounded".
C3_ScenarioC_AsStated ==
    Solved => \A i \in ResourceIndices : ScenarioC(i) => result = Err("Unbounded")

\* C3 amended: in the case of scenario C solve never returns "Unbounded":
\* the un-ruled resource is balanced to 0, so the result is Ok with net flow
\* 0 for it, or "Infeasible".  "Unbounded" is what solve returns on
\* SmeltWorld when Ore and Ingot both carry an Unconstrained rule and Ingot
\* is maximised.
C3_ScenarioC ==
    /\ Solved =>
        \A i \in ResourceIndices :
            ScenarioC(i) =>
                \/ result = Err("Infeasible")
                \/ /\ result.ok
                   /\ NetFlow(Throughputs, i) = RatOfInt(0)
    /\ ( /\ Solved
         /\ world = SmeltWorld
         /\ problem = Problem(<<Rule(ResourceId(0), Unconstrained),
                                Rule(ResourceId(1), Unconstrained)>>,
                              << <<ResourceId(1), F64OfInt(1)>> >>) )
        => result = Err("Unbounded")

\* scenario C solved: Ingot is produced, never consumed, un-ruled, maximised
C3_Witness ==
    /\ pc = "solved"
    /\ world = SmeltWorld
    /\ ScenarioC(1)
    /\ result.ok

\* ------------------------------------------------------------------------
\* C4  Objective
\* ------------------------------------------------------------------------

\* the sum of the coefficients of the optimization entries that name v
SummedCoefficient(v) ==
    F64SumSeq([k \in 1 .. Len(problem.optimizations) |->
        IF problem.optimizations[k][1] = v THEN problem.optimizations[k][2]
        ELSE Zero(FALSE)])

\* C4: the objective coefficient of every variable in the program solve
\* maximises is the sum of the coefficients of the optimization entries that
\* name the variable (0 when none does), also when a variable is named by
\* more than one entry.
C4_Objective ==
    Solved =>
        \A v \in VariableIds(world) :
            F64Eq(program.objective[VariableOf(world, v) + 1], SummedCoefficient(v))

\* ------------------------------------------------------------------------
\* C5  Conservation of the reported result
\* ------------------------------------------------------------------------

\* the sum of |rate| over the rate entries of the catalog that name i
RateWeight(i) ==
    DyadicSumSeq([j \in 1 .. Len(world.recipes) |->
        DyadicSumSeq([k \in 1 .. Len(world.recipes[j].rates) |->
            IF world.recipes[j].rates[k][1] = i
            THEN DyadicAbs(DyadicOf(world.recipes[j].rates[k][2]))
            ELSE Dyadic(FALSE, <<>>, 0)])])

\* the contributions the report lists for resource i
ContributionsTo(i) == resources[i + 1][2]

\* the sum of |contribution| over the contributions the report lists for i
ContributionWeight(i) ==
    DyadicSumSeq([k \in 1 .. Len(ContributionsTo(i)) |->
        DyadicAbs(DyadicOf(ContributionsTo(i)[k][2]))])

\* 1,000,000 times the tolerance 1e-6
Micro == Dyadic(FALSE, <<1>>, 0)

\* 1,000,000 times the tolerance 1e-6 * weight + n * 2^-50 * magnitude
MicroTolerance(weight, n, magnitude) ==
    DyadicSum(weight, DyadicTimes(magnitude, n * 1000000, -50))

\* 1,000,000 times the tolerance of the net rate of resource i: 1e-6 for
\* each unit of rate that names i, and 2^-50 of the contributions for each
\* of them
NetTolerance(i) ==
    MicroTolerance(RateWeight(i), Len(ContributionsTo(i)), ContributionWeight(i))

\* the exact number d is at most the tolerance, given as 1,000,000 times it
AtMost(d, micros) == DyadicLeq(DyadicTimes(d, 1000000, 0), micros)

\* C5 as stated: for every Ok Factory and every un-ruled resource, the net
\* rate net_resources reports has absolute value at most 1e-6.
C5_Conservation_AsStated ==
    pc = "reported" =>
        \A i \in ResourceIndices :
            ~Ruled(i) => AtMost(DyadicAbs(DyadicOf(NetRates[i + 1])), Micro)

\* C5 amended: for every Ok Factory and every un-ruled resource, the net
\* rate net_resources reports has absolute value at most 1e-6 times the sum
\* of |rate| over the catalog's rate entries naming the resource, plus
\* n * 2^-50 times the sum of |contribution| over the n contributions the
\* report lists for the resource.
C5_Conservation ==
    pc = "reported" =>
        \A i \in ResourceIndices :
            ~Ruled(i) => AtMost(DyadicAbs(DyadicOf(NetRates[i + 1])), NetTolerance(i))

\* a report under a large threshold in which an un-ruled resource is off
\* balance by more than 1e-6 times the sum of |rate| of its rate entries
C5_Witness ==
    /\ pc = "reported"
    /\ \E k \in 1 .. Len(problem.rules) :
        problem.rules[k].constraint.rate \in LargeThresholds
    /\ \E i \in ResourceIndices :
        /\ ~Ruled(i)
        /\ ~AtMost(DyadicAbs(DyadicOf(NetRates[i + 1])), RateWeight(i))

\* ------------------------------------------------------------------------
\* C6  Rule satisfaction
\* ------------------------------------------------------------------------

\* the rate of recipe j in the returned Factory, 0 when it is absent
FactoryRate(j) ==
    IF \E k \in 1 .. Len(result.factory) : result.factory[k][1] = j
    THEN result.factory[CHOOSE k \in 1 .. Len(result.factory) :
                            result.factory[k][1] = j][2]
    ELSE Zero(FALSE)

\* the solved value of a rule's variable, as the caller sees it
SolvedValue(variable) ==
    IF variable.kind = "Recipe"
    THEN FactoryRate(variable.index)
    ELSE NetRates[variable.index + 1]

RatNeg(p) == [n |-> -p.n, d |-> p.d]

\* the rational value satisfies the constraint up to the tolerance
Within(value, constraint, tolerance) ==
    LET low == RatAdd(RatOfF64(constraint.rate), RatNeg(tolerance))
        high == RatAdd(RatOfF64(constraint.rate), tolerance)
    IN  CASE constraint.kind = "Less" -> RatLeq(value, high)
          [] constraint.kind = "Equal" -> RatLeq(low, value) /\ RatLeq(value, high)
          [] constraint.kind = "Greater" -> RatLeq(low, value)
          [] constraint.kind = "Unconstrained" -> TRUE

\* the f64 value satisfies the constraint up to the tolerance, given as
\* 1,000,000 times it: `above` is value - threshold, compared exactly
RateWithinBy(above, kind, micros) ==
    CASE kind = "Less" -> AtMost(above, micros)
      [] kind = "Equal" -> AtMost(above, micros) /\ AtMost(DyadicNeg(above), micros)
      [] kind = "Greater" -> AtMost(DyadicNeg(above), micros)
      [] kind = "Unconstrained" -> TRUE

RateWithin(value, constraint, micros) ==
    RateWithinBy(DyadicSum(DyadicOf(value), DyadicNeg(DyadicOf(constraint.rate))),
                 constraint.kind, micros)

\* 1,000,000 times the tolerance of the solved value of a variable: for a
\* recipe 1e-6 plus 2^-50 of its rate, for a resource that of its net rate
RuleTolerance(variable) ==
    IF variable.kind = "Recipe"
    THEN MicroTolerance(Micro, 1, DyadicAbs(DyadicOf(FactoryRate(variable.index))))
    ELSE NetTolerance(variable.index)

\* C6 as stated: for every Ok Factory, every Less/Equal/Greater rule holds
\* of the solved value of its variable within 1e-6.
C6_RuleSatisfaction_AsStated ==
    pc = "reported" =>
        \A k \in 1 .. Len(problem.rules) :
            RateWithin(SolvedValue(problem.rules[k].variable),
                       problem.rules[k].constraint, Micro)

\* C6 amended: for every Ok Factory, every Less/Equal/Greater rule on a
\* recipe holds of the recipe's rate v in the Factory within
\* 1e-6 + 2^-50 * |v|, and every such rule on a resource holds of the
\* reported net rate within 1e-6 times the sum of |rate| over the catalog's
\* rate entries naming the resource plus n * 2^-50 times the sum of
\* |contribution| over the n contributions the report lists for it; all
\* rules on one variable hold together.
C6_RuleSatisfaction ==
    pc = "reported" =>
        \A k \in 1 .. Len(problem.rules) :
            RateWithin(SolvedValue(problem.rules[k].variable),
                       problem.rules[k].constraint,
                       RuleTolerance(problem.rules[k].variable))

\* a report under two constraining rules on one resource, with a large
\* threshold, in which one of them misses its threshold by more than 1e-6
\* times the sum of |rate| of the rate entries of the resource, and a rule
\* on a recipe misses its threshold by more than 1e-6
C6_Witness ==
    /\ pc = "reported"
    /\ \E k \in 1 .. Len(problem.rules) :
        /\ problem.rules[k].variable.kind = "Recipe"
        /\ ~RateWithin(SolvedValue(problem.rules[k].variable),
                       problem.rules[k].constraint, Micro)
    /\ \E k1, k2 \in 1 .. Len(problem.rules) :
        /\ k1 # k2
        /\ problem.rules[k1].variable = problem.rules[k2].variable
        /\ problem.rules[k1].constraint.kind # "Unconstrained"
        /\ problem.rules[k2].constraint.kind # "Unconstrained"
        /\ problem.rules[k1].constraint.rate \in LargeThresholds
        /\ problem.rules[k1].variable.kind = "Resource"
        /\ ~RateWithin(SolvedValue(problem.rules[k1].variable),
                       problem.rules[k1].constraint,
                       RateWeight(problem.rules[k1].variable.index))

\* ------------------------------------------------------------------------
\* C7  Non-negativity
\* ------------------------------------------------------------------------

\* some rule asks a recipe for a negative throughput
NegativeRecipeRule ==
    \E k \in 1 .. Len(problem.rules) :
        /\ problem.rules[k].variable.kind = "Recipe"
        /\ problem.rules[k].constraint.kind \in {"Less", "Equal"}
        /\ F64Less(problem.rules[k].constraint.rate, Zero(FALSE))

\* C7: every entry of every Factory solve returns has rate >= 0, and a rule
\* that asks a recipe for a negative throughput (such as Less(-1)) makes
\* solve return "Infeasible".
C7_NonNegativity ==
    Solved =>
        /\ \A k \in 1 .. Len(result.factory) :
            ~F64Less(result.factory[k][2], Zero(FALSE))
        /\ NegativeRecipeRule => result = Err("Infeasible")

\* a solve under a rule that asks a recipe for a negative throughput
C7_Witness ==
    /\ pc = "solved"
    /\ NegativeRecipeRule
    /\ result = Err("Infeasible")

\* ------------------------------------------------------------------------
\* C8  Rounding and pruning
\* ------------------------------------------------------------------------

HalfMicro == Rat(1, 2000000)

\* recipe j has an entry in the returned Factory
InFactory(j) == \E k \in 1 .. Len(result.factory) : result.factory[k][1] = j

\* the integers nearest to the rational p: one, or the two neighbours of p
\* when p lies half way between them
NearestIntegers(p) ==
    {k \in {p.n \div p.d, p.n \div p.d + 1} :
        Abs(k * p.d - p.n) <= p.d - Abs(k * p.d - p.n)}

\* k / 1,000,000 as an f64: the f64 nearest to it
Millionths(k) == F64OfRat(Rat(k, SOLUTION_ROUND_PRECISION))

\* C8: a recipe is in the Factory exactly when its solved throughput is not
\* below 0.5e-6 in magnitude, and then its rate is k / 1,000,000 as an f64
\* for a non-zero integer k that is nearest to the solved throughput times
\* 1,000,000.
C8_Rounding ==
    (Solved /\ result.ok) =>
        \A j \in RecipeIndices :
            LET value == Throughputs[j + 1]
            IN  /\ InFactory(j) <=> RatLeq(HalfMicro, RatAbs(value))
                /\ InFactory(j) =>
                    \E k \in NearestIntegers(RatMulInt(value, SOLUTION_ROUND_PRECISION)) :
                        /\ k # 0
                        /\ FactoryRate(j) = Millionths(k)

\* a solve whose answer runs a recipe at less than 0.5e-6, which is pruned
C8_Witness ==
    /\ pc = "solved"
    /\ result.ok
    /\ \E j \in RecipeIndices :
        /\ Throughputs[j + 1].n # 0
        /\ ~InFactory(j)

\* ------------------------------------------------------------------------
\* C9  Catalog order in the solution
\* ------------------------------------------------------------------------

\* C9: the RecipeIds of the entries of a returned Factory are strictly
\* increasing and each is smaller than the number of recipes of the catalog.
C9_CatalogOrder ==
    (Solved /\ result.ok) =>
        /\ \A k \in 1 .. Len(result.factory) - 1 :
            result.factory[k][1] < result.factory[k + 1][1]
        /\ \A k \in 1 .. Len(result.factory) :
            result.factory[k][1] \in RecipeIndices

\* a returned Factory with more than one entry
C9_Witness ==
    /\ pc = "solved"
    /\ result.ok
    /\ Len(result.factory) >= 2

\* ------------------------------------------------------------------------
\* C10  Solve outcomes
\* ------------------------------------------------------------------------

\* Recipe throughputs and directions the outcome is compared against.  The
\* values are chosen so that every feasible set met here holds one of them.
GridValues == {0, 1, 2, 7, 50, 100, 350}

DirectionValues == {0, 1, 2, 7}

Grid == [1 .. Len(world.recipes) -> {RatOfInt(g) : g \in GridValues}]

Directions == [1 .. Len(world.recipes) -> {RatOfInt(g) : g \in DirectionValues}]

\* the value of a rule's variable under recipe throughputs x
ValueUnder(x, variable) ==
    IF variable.kind = "Recipe" THEN x[variable.index + 1] ELSE NetFlow(x, variable.index)

\* x satisfies conservation, recipe non-negativity, every rule and the
\* default balance; with homogeneous = TRUE the thresholds are taken as 0,
\* which makes x a direction along which the feasible set never ends
Admissible(x, homogeneous) ==
    /\ \A j \in 1 .. Len(world.recipes) : x[j].n >= 0
    /\ \A k \in 1 .. Len(problem.rules) :
        Within(ValueUnder(x, problem.rules[k].variable),
               IF homogeneous
               THEN [problem.rules[k].constraint EXCEPT !.rate = Zero(FALSE)]
               ELSE problem.rules[k].constraint,
               RatOfInt(0))
    /\ \A i \in ResourceIndices : ~Ruled(i) => NetFlow(x, i) = RatOfInt(0)

Feasible(x) == Admissible(x, FALSE)

\* the objective of the program solve built, at recipe throughputs x
ObjectiveAt(x) ==
    RatAdd(
        RatSumSeq([i \in 1 .. Len(world.resources) |->
            RatMul(NetFlow(x, i - 1), RatOfF64(program.objective[i]))]),
        RatSumSeq([j \in 1 .. Len(world.recipes) |->
            RatMul(x[j], RatOfF64(program.objective[Len(world.resources) + j]))]))

\* the objective grows for ever along some admissible direction
Improvable ==
    \E d \in Directions :
        /\ Admissible(d, TRUE)
        /\ ~RatLeq(ObjectiveAt(d), RatOfInt(0))

\* C10: solve returns "Infeasible" exactly when no throughputs satisfy
\* conservation, non-negativity, the rules and the default balance; it
\* returns "Unbounded" exactly when some do and the objective grows without
\* limit over them; otherwise it returns Ok with a Factory taken from
\* throughputs that satisfy them and that no others beat.  An error carries
\* no Factory and nothing follows it.
C10_Outcomes ==
    /\ Solved =>
        /\ result.ok \/ result = Err("Infeasible") \/ result = Err("Unbounded")
        /\ ~result.ok => result.factory = <<>> /\ pc = "solved"
    /\ pc = "solved" =>
        /\ result = Err("Infeasible") => \A x \in Grid : ~Feasible(x)
        /\ result = Err("Unbounded") => (\E x \in Grid : Feasible(x)) /\ Improvable
        /\ result.ok =>
            /\ Feasible(Throughputs)
            /\ ~Improvable
            /\ \A x \in Grid :
                Feasible(x) => RatLeq(ObjectiveAt(x), ObjectiveAt(Throughputs))

\* a solve under two or more rules that ends in "Unbounded"
C10_Witness ==
    /\ pc = "solved"
    /\ result = Err("Unbounded")
    /\ Len(problem.rules) >= 2
    /\ \E k \in 1 .. Len(problem.rules) :
        problem.rules[k].constraint.kind # "Unconstrained"

\* ------------------------------------------------------------------------
\* C11  Scenario B
\* ------------------------------------------------------------------------

\* the rules of scenario B: Equal(100) on Ingot and nothing else
ScenarioBRules == <<Rule(ResourceId(1), Equal(F64OfInt(100)))>>

\* C11: on the scenario catalog, a Problem whose only rule is Equal(100) on
\* Ingot makes solve return the error "Infeasible", whatever its
\* optimizations are.
C11_ScenarioB ==
    (Solved /\ world = SmeltWorld /\ problem.rules = ScenarioBRules) =>
        result = Err("Infeasible")

\* scenario B solved under two optimizations
C11_Witness ==
    /\ pc = "solved"
    /\ world = SmeltWorld
    /\ problem.rules = ScenarioBRules
    /\ Len(problem.optimizations) = 2
    /\ result = Err("Infeasible")

\* ------------------------------------------------------------------------
\* C12  net_resources is the reference fold
\* ------------------------------------------------------------------------

RECURSIVE Concat(_)
Concat(seqs) == IF seqs = <<>> THEN <<>> ELSE Head(seqs) \o Concat(Tail(seqs))

\* what one Factory entry contributes to resource r: one (recipe,
\* throughput x rate) per rate entry of the recipe that names r
EntryContributions(w, entry, r) ==
    LET naming == SelectSeq(w.recipes[entry[1] + 1].rates, LAMBDA e : e[1] = r)
    IN  [m \in 1 .. Len(naming) |->
            <<entry[1], F64Mul(entry[2], naming[m][2])>>]

\* the f64 sum of the first n rates of the contributions, each added in its
\* turn to what the ones before it gave, from 0.0
RECURSIVE SumOfFirst(_, _)
SumOfFirst(contributions, n) ==
    IF n = 0 THEN Zero(FALSE)
    ELSE F64Add(SumOfFirst(contributions, n - 1), contributions[n][2])

\* the contribution list of resource r, entry after entry of the Factory
Contributions(w, factory, r) ==
    Concat([k \in 1 .. Len(factory) |-> EntryContributions(w, factory[k], r)])

\* C12: net_resources returns one entry per resource of the catalog, in
\* catalog order; the contribution list of a resource is, Factory entry
\* after Factory entry and rate entry after rate entry, the (recipe,
\* throughput x rate) of the rate entries naming it, the product being the
\* f64 product; its net rate is the f64 sum of those contributions, added in
\* the order of the list; a resource nothing touches is present with net
\* rate 0 and an empty list.
C12_ReferenceFold ==
    call.op = "net_resources" =>
        /\ Len(ret) = Len(call.world.resources)
        /\ \A r \in 0 .. Len(call.world.resources) - 1 :
            LET contributions == Contributions(call.world, call.factory, r)
            IN  /\ ret[r + 1][2] = contributions
                /\ ret[r + 1][1] = SumOfFirst(contributions, Len(contributions))
                /\ contributions = <<>> => ret[r + 1] = <<Zero(FALSE), <<>> >>

\* the exact sum of the first n rates of the contributions, as m * 2^e
\* over the exponent e: <<negative, m>>
RECURSIVE ExactSum(_, _, _)
ExactSum(contributions, n, e) ==
    IF n = 0 THEN <<FALSE, <<>> >>
    ELSE LET before == ExactSum(contributions, n - 1, e)
             x == contributions[n][2]
             m == BigShl(x.m, x.e - e)
         IN  IF before[1] = x.neg THEN <<x.neg, BigAdd(before[2], m)>>
             ELSE IF BigLess(before[2], m) THEN <<x.neg, BigSub(m, before[2])>>
             ELSE <<before[1], BigSub(before[2], m)>>

\* a report on a two-entry Factory in which one resource has three or more
\* contributions, whose f64 sum is not their exact sum, and another
\* resource has none
C12_Witness ==
    /\ call.op = "net_resources"
    /\ Len(call.factory) = 2
    /\ \E r1, r2 \in 1 .. Len(ret) :
        /\ Len(ret[r1][2]) >= 3
        /\ LET e == -1100
               exact == ExactSum(ret[r1][2], Len(ret[r1][2]), e)
           IN  BigShl(ret[r1][1].m, ret[r1][1].e - e) # exact[2]
        /\ ret[r2] = <<Zero(FALSE), <<>> >>

\* ------------------------------------------------------------------------
\* C15  Catalog validation in load_world
\* ------------------------------------------------------------------------

\* rate entry m of recipe k of a world file names a resource that is not in
\* the file's resource list
UnknownResource(file, k, m) ==
    \A i \in 1 .. Len(file.resources) :
        file.resources[i] # file.recipes[k].rates[m][1]

\* the <<recipe, rate entry>> positions of a world file with an unknown
\* resource
Offending(file) ==
    UNION {{<<k, m>> : m \in {n \in 1 .. Len(file.recipes[k].rates) :
                                    UnknownResource(file, k, n)}} :
                k \in 1 .. Len(file.recipes)}

\* the first of them in file order
FirstOffending(file) ==
    CHOOSE km \in Offending(file) :
        \A other \in Offending(file) :
            \/ km[1] < other[1]
            \/ km[1] = other[1] /\ km[2] <= other[2]

\* C15: on a world file, load_world fails exactly when some rate entry names
\* a resource that is not in the resource list; the error is
\* BadRecipeResource with the names of the first such recipe and resource,
\* and no World is returned.  When load_world returns a World, it has the
\* file's resources, and every recipe of the file with all its rate entries
\* in file order, each with a ResourceId below the number of resources whose
\* name is the entry's name, and with the f64 product of the entry's rate
\* and per_minute as its rate (a zero with the sign of the product when
\* either is zero).
C15_CatalogValidation ==
    (call.op = "load_world" /\ call.file.type = "WorldJson") =>
        LET file == call.file
        IN  /\ ret.ok <=> Offending(file) = {}
            /\ ~ret.ok =>
                LET km == FirstOffending(file)
                IN  ret = Failed(BadRecipeResource(
                                file.recipes[km[1]].name,
                                file.recipes[km[1]].rates[km[2]][1]))
            /\ ret.ok =>
                /\ ret.value.resources = file.resources
                /\ Len(ret.value.recipes) = Len(file.recipes)
                /\ \A k \in 1 .. Len(file.recipes) :
                    LET recipe == ret.value.recipes[k]
                        json == file.recipes[k]
                    IN  /\ recipe.name = json.name
                        /\ recipe.tags = json.tags
                        /\ Len(recipe.rates) = Len(json.rates)
                        /\ \A m \in 1 .. Len(json.rates) :
                            /\ recipe.rates[m][1] \in 0 .. Len(file.resources) - 1
                            /\ file.resources[recipe.rates[m][1] + 1] = json.rates[m][1]
                            /\ LET rate == JsonF64(json.rates[m][2]).value
                                   per_minute == JsonF64(json.per_minute).value
                               IN  /\ recipe.rates[m][2] = F64Mul(rate, per_minute)
                                   /\ (rate.m = <<>> \/ per_minute.m = <<>>)
                                        => recipe.rates[m][2]
                                            = Zero(rate.neg # per_minute.neg)

\* a world file whose first recipe is sound and whose second recipe names an
\* unknown resource after a known one
C15_Witness ==
    /\ call.op = "load_world"
    /\ call.file.type = "WorldJson"
    /\ Len(call.file.recipes) = 2
    /\ ~ret.ok
    /\ FirstOffending(call.file) = <<2, 2>>
    /\ ret.error.recipe_name = call.file.recipes[2].name

\* ------------------------------------------------------------------------
\* C17  Name lookup is first-match
\* ------------------------------------------------------------------------

\* the indices (zero-based) at which `names` holds `name`
Matches(names, name) == {i \in 0 .. Len(names) - 1 : names[i + 1] = name}

\* the smallest of them, None when there is none
FirstMatch(names, name) ==
    IF Matches(names, name) = {} THEN None
    ELSE Some(CHOOSE i \in Matches(names, name) :
                \A j \in Matches(names, name) : i <= j)

\* C17: resource_id_of_name and recipe_id_of_name return the smallest index
\* whose name is the one asked for, and None when no entry has it; the name
\* of the id returned is the name asked for; and looking up the name of a
\* valid id gives that id back exactly when no entry with a smaller index
\* has the same name.
C17_FirstMatch ==
    /\ call.op = "resource_id_of_name" =>
        /\ ret = FirstMatch(call.world.resources, call.name)
        /\ ret.some => name_of_resource(call.world, ret.value) = call.name
    /\ call.op = "recipe_id_of_name" =>
        /\ ret = FirstMatch(RecipeNames(call.world), call.name)
        /\ ret.some => name_of_recipe(call.world, ret.value) = call.name
    /\ call.op = "name_of_resource" =>
        (resource_id_of_name(call.world, ret) = Some(call.id))
            <=> (\A i \in 0 .. call.id - 1 : call.world.resources[i + 1] # ret)
    /\ call.op = "name_of_recipe" =>
        (recipe_id_of_name(call.world, ret) = Some(call.id))
            <=> (\A i \in 0 .. call.id - 1 : call.world.recipes[i + 1].name # ret)

\* the name of the third resource of a catalog is looked up and leads back
\* to the first resource, which has the same name
C17_Witness ==
    /\ call.op = "name_of_resource"
    /\ call.id = 2
    /\ resource_id_of_name(call.world, ret) = Some(0)

\* ------------------------------------------------------------------------
\* C18  Unconstrained rules
\* ------------------------------------------------------------------------

\* the rules of the problem that are not Unconstrained rules on a recipe
WithoutUnconstrainedRecipeRules ==
    SelectSeq(problem.rules,
              LAMBDA rule : ~(rule.variable.kind = "Recipe"
                              /\ rule.constraint.kind = "Unconstrained"))

\* the rules of the problem that are not Unconstrained
ConstrainingRules ==
    SelectSeq(problem.rules, LAMBDA rule : rule.constraint.kind # "Unconstrained")

\* the constraints solve added before the default balance
LeadingConstraints ==
    SubSeq(program.constraints, 1,
           Len(program.constraints) - Len(TrailingConstraints))

\* C18: a resource that any rule targets, an Unconstrained rule included,
\* gets no default "net flow = 0" constraint; the problem without its
\* Unconstrained rules on recipes gives the same linear program; and the
\* problem without any of its Unconstrained rules gives the same constraints
\* up to the default balance, so an Unconstrained rule adds no constraint.
C18_Unconstrained ==
    Solved =>
        /\ \A i \in ResourceIndices :
            Ruled(i) =>
                \A k \in 1 .. Len(TrailingConstraints) :
                    TrailingConstraints[k] # DefaultBalanceConstraint(i)
        /\ BuildProblem(world,
                        Problem(WithoutUnconstrainedRecipeRules, problem.optimizations))
            = program
        /\ LET constraining ==
                BuildProblem(world, Problem(ConstrainingRules, problem.optimizations))
           IN  /\ constraining.objective = program.objective
               /\ SubSeq(constraining.constraints, 1, Len(LeadingConstraints))
                    = LeadingConstraints

\* a solve under an Unconstrained rule on a resource, an Unconstrained rule
\* on a recipe and a rule that constrains
C18_Witness ==
    /\ pc = "solved"
    /\ \E k1, k2, k3 \in 1 .. Len(problem.rules) :
        /\ problem.rules[k1].constraint.kind = "Unconstrained"
        /\ problem.rules[k1].variable.kind = "Resource"
        /\ problem.rules[k2].constraint.kind = "Unconstrained"
        /\ problem.rules[k2].variable.kind = "Recipe"
        /\ problem.rules[k3].constraint.kind # "Unconstrained"

\* ------------------------------------------------------------------------
\* C19  Constraint construction order
\* ------------------------------------------------------------------------

\* the sum of the rates of recipe j (zero-based) that name resource i
RateOf(j, i) ==
    RatSumSeq([k \in 1 .. Len(world.recipes[j + 1].rates) |->
        IF world.recipes[j + 1].rates[k][1] = i
        THEN RatOfF64(world.recipes[j + 1].rates[k][2])
        ELSE RatOfInt(0)])

\* the sum of the coefficients an expression of the program gives a variable
TotalCoefficient(expr, variable) ==
    RatSumSeq([k \in 1 .. Len(expr) |->
        IF expr[k][1] = variable THEN RatOfF64(expr[k][2]) ELSE RatOfInt(0)])

\* the comparison a constraining rule asks for
RuleOp(rule) ==
    IF rule.constraint.kind = "Less" THEN "Le"
    ELSE IF rule.constraint.kind = "Equal" THEN "Eq"
    ELSE "Ge"

\* C19: the program has one variable per resource and then one per recipe,
\* and its constraints are, in this order: for each resource in catalog
\* order the equality "sum of rate x recipe variable - resource variable =
\* 0"; for each recipe in catalog order "recipe variable >= 0"; for each
\* rule that is not Unconstrained, in rule order, its comparison of its
\* variable with its threshold; for each un-ruled resource in catalog order
\* "resource variable = 0"; and nothing else.
C19_ConstraintOrder ==
    Solved =>
        LET nres == Len(world.resources)
            nrec == Len(world.recipes)
            nrules == Len(ConstrainingRules)
            unruled == {i \in ResourceIndices : ~Ruled(i)}
            constraints == program.constraints
        IN  /\ Len(program.objective) = nres + nrec
            /\ Len(constraints) = nres + nrec + nrules + Cardinality(unruled)
            /\ \A i \in ResourceIndices :
                /\ constraints[i + 1].op = "Eq"
                /\ constraints[i + 1].rhs = Zero(FALSE)
                /\ \A h \in 0 .. nres + nrec - 1 :
                    TotalCoefficient(constraints[i + 1].expr, h)
                        = IF h = i THEN RatOfInt(-1)
                          ELSE IF h < nres THEN RatOfInt(0)
                          ELSE RateOf(h - nres, i)
            /\ \A j \in RecipeIndices :
                constraints[nres + j + 1]
                    = LinearConstraint(<< <<nres + j, F64OfInt(1)>> >>,
                                       "Ge", Zero(FALSE))
            /\ \A k \in 1 .. nrules :
                LET rule == ConstrainingRules[k]
                IN  constraints[nres + nrec + k]
                        = LinearConstraint(
                              << <<IF rule.variable.kind = "Resource"
                                   THEN rule.variable.index
                                   ELSE nres + rule.variable.index,
                                   F64OfInt(1)>> >>,
                              RuleOp(rule), rule.constraint.rate)
            /\ \A i \in unruled :
                constraints[nres + nrec + nrules
                            + Cardinality({h \in unruled : h < i}) + 1]
                    = DefaultBalanceConstraint(i)

\* a program built under two constraining rules of different kinds, an
\* Unconstrained rule and an un-ruled resource
C19_Witness ==
    /\ pc = "solved"
    /\ Len(problem.rules) = 3
    /\ Len(ConstrainingRules) = 2
    /\ ConstrainingRules[1].constraint.kind # ConstrainingRules[2].constraint.kind
    /\ \E i \in ResourceIndices : ~Ruled(i)

\* ------------------------------------------------------------------------
\* C20  Persistence round trip
\* ------------------------------------------------------------------------

\* no two resources and no two recipes of the catalog have the same name
DistinctNames(w) ==
    /\ \A i, j \in 1 .. Len(w.resources) : w.resources[i] = w.resources[j] => i = j
    /\ \A i, j \in 1 .. Len(w.recipes) : w.recipes[i].name = w.recipes[j].name => i = j

\* a name stored in the file is the name of nothing in the catalog
AbsentRuleName(w, file) ==
    \E k \in 1 .. Len(file.rules) :
        IF file.rules[k].kind = "Resource"
        THEN ~resource_id_of_name(w, file.rules[k].name).some
        ELSE ~recipe_id_of_name(w, file.rules[k].name).some

AbsentRecipeName(w, file) ==
    \E k \in 1 .. Len(file.recipes) : ~recipe_id_of_name(w, file.recipes[k][1]).some

\* the load that follows a save of the same kind on the same path, the save
\* having returned
LoadAfterSave(save, load) ==
    /\ call.op = save
    /\ ret = NoReturn
    /\ call'.op = load
    /\ call'.path = call.path

\* C20: under a catalog with pairwise distinct resource names and pairwise
\* distinct recipe names, load_rule_list after save_rule_list returns the
\* rules that were saved, in their order, and load_factory after
\* save_factory returns the (RecipeId, rate) entries that were saved; and a
\* load under a catalog that lacks a stored name returns BadResourceName or
\* BadRecipeName and no rules or entries.
C20_RoundTrip ==
    [][ /\ ( /\ LoadAfterSave("save_rule_list", "load_rule_list")
             /\ call'.world = call.world
             /\ DistinctNames(call.world) )
            => ret' = Loaded(call.rule_list)
        /\ ( /\ LoadAfterSave("save_factory", "load_factory")
             /\ call'.world = call.world
             /\ DistinctNames(call.world) )
            => ret' = Loaded(call.factory)
        /\ ( /\ LoadAfterSave("save_rule_list", "load_rule_list")
             /\ AbsentRuleName(call'.world, files[call.path]) )
            => /\ ~ret'.ok
               /\ ret'.error.type \in {"BadResourceName", "BadRecipeName"}
        /\ ( /\ LoadAfterSave("save_factory", "load_factory")
             /\ AbsentRecipeName(call'.world, files[call.path]) )
            => /\ ~ret'.ok
               /\ ret'.error.type = "BadRecipeName"
      ]_vars

\* ------------------------------------------------------------------------
\* C16: the ids a page holds belong to the World it holds
\* ------------------------------------------------------------------------

\* the ids name_of_resource and name_of_recipe do not panic on
KnownResource(w, index) == name_of_resource(w, index) # InvalidResourceId

KnownRecipe(w, index) == name_of_recipe(w, index) # InvalidRecipeId

KnownVariable(w, variable) ==
    \/ variable.kind = "Resource" /\ KnownResource(w, variable.index)
    \/ variable.kind = "Recipe" /\ KnownRecipe(w, variable.index)

\* the rates of the recipes of w name resources of w
RatesInCatalog(w) ==
    \A k \in 1 .. Len(w.recipes) : \A m \in 1 .. Len(w.recipes[k].rates) :
        KnownResource(w, w.recipes[k].rates[m][1])

\* the entries of a Factory name recipes of w
FactoryInCatalog(w, factory) ==
    \A k \in 1 .. Len(factory) : KnownRecipe(w, factory[k][1])

\* a NetResources has one entry per resource of w, and its contributions
\* name recipes of w
NetResourcesInCatalog(w, net) ==
    /\ Len(net) = Len(w.resources)
    /\ \A r \in 1 .. Len(net) : \A c \in 1 .. Len(net[r][2]) :
        KnownRecipe(w, net[r][2][c][1])

\* the rules, rule builders and optimizations of a BuildFactoryPage name
\* variables of its world
EntriesInCatalog(p) ==
    /\ \A i \in 1 .. Len(p.rule_lists) :
        /\ \A k \in 1 .. Len(p.rule_lists[i].rules) :
            KnownVariable(p.world, p.rule_lists[i].rules[k].variable)
        /\ p.rule_lists[i].builder.open
            => \/ p.rule_lists[i].builder.selected_variable = NoVariable
               \/ KnownVariable(p.world, p.rule_lists[i].builder.selected_variable)
    /\ \A i \in 1 .. Len(p.optimizations) :
        \/ p.optimizations[i].variable = NoVariable
        \/ KnownVariable(p.world, p.optimizations[i].variable)

\* C16: in every state the application reaches through its UI actions, the
\* rates of the page's World name its own resources, and every ResourceId
\* and RecipeId in a rule, a rule builder, an optimization, the solved or
\* loaded Factory and its NetResources is within range of the World the
\* same page holds, so name_of_resource and name_of_recipe do not panic on
\* them and NetResources has one entry per resource.
C16_IdsInCatalog ==
    /\ page.kind \in {"LoadedPage", "BuildFactoryPage", "EditFactoryPage"}
        => RatesInCatalog(page.world)
    /\ page.kind = "BuildFactoryPage"
        => /\ EntriesInCatalog(page)
           /\ page.solution.ok
                => /\ FactoryInCatalog(page.world, page.solution.factory)
                   /\ NetResourcesInCatalog(page.world, page.solution.resources)
    /\ page.kind = "EditFactoryPage"
        => /\ FactoryInCatalog(page.world, page.factory)
           /\ NetResourcesInCatalog(page.world, page.resources)

\* a BuildFactoryPage on a world filtered down to the recipe that was second
\* in the loaded world, with a rule in a list and a solved Factory that runs
\* that recipe
C16_Witness ==
    /\ page.kind = "BuildFactoryPage"
    /\ Len(page.world.recipes) = 1
    /\ page.world.recipes[1].name = "Make"
    /\ \E i \in 1 .. Len(page.rule_lists) : page.rule_lists[i].rules # <<>>
    /\ page.solution.ok
    /\ page.solution.factory # <<>>
    /\ page.solution.factory[1][1] = 0

\* ------------------------------------------------------------------------
\* C21: what a click on Solve does with the optimizations
\* ------------------------------------------------------------------------

\* the optimizations of a BuildFactoryPage that have a selected variable,
\* in their order
SelectedOptimizations(p) ==
    SelectSeq(p.optimizations, LAMBDA entry : entry.variable # NoVariable)

\* the positions of the selected optimizations whose text is no number
BadCoefficients(p) ==
    {k \in 1 .. Len(SelectedOptimizations(p)) :
        ~ParseF64(SelectedOptimizations(p)[k].bias).some}

\* the Problem of the claim: the rules of all lists in displayed order and
\* the selected optimizations with their numbers
ClickedProblem(p) ==
    Problem(Concat([i \in 1 .. Len(p.rule_lists) |-> p.rule_lists[i].rules]),
            [k \in 1 .. Len(SelectedOptimizations(p)) |->
                <<SelectedOptimizations(p)[k].variable,
                  ParseF64(SelectedOptimizations(p)[k].bias).value>>])

\* the page stays a BuildFactoryPage and its solution changes: only Solve
\* assigns the solution
SolutionReplaced ==
    /\ page.kind = "BuildFactoryPage"
    /\ page'.kind = "BuildFactoryPage"
    /\ page'.solution # page.solution

\* C21: a step that replaces the solution of a BuildFactoryPage leaves
\* everything else of the page as it was.  If some optimization with a
\* selected variable has a text that is no number, the new solution is the
\* error 'Invalid number "<text>" in optimization' for the first such text,
\* which no call of solve returns; otherwise it is a result of solve on the
\* rules of all lists in displayed order and the optimizations with a
\* selected variable in order, whatever the texts of the others.
C21_SolveClick ==
    [][ SolutionReplaced =>
          /\ page' = [page EXCEPT !.solution = page'.solution]
          /\ BadCoefficients(page) # {} =>
                LET first == CHOOSE k \in BadCoefficients(page) :
                                \A other \in BadCoefficients(page) : k <= other
                IN  page'.solution =
                        SolutionErr("Invalid number \""
                                    \o SelectedOptimizations(page)[first].bias
                                    \o "\" in optimization")
          /\ BadCoefficients(page) = {} =>
                \E answer \in MinilpSolve(BuildProblem(page.world,
                                                       ClickedProblem(page))) :
                    page'.solution = PageSolution(page.world, answer)
      ]_vars

\* Solve was clicked with a selected optimization whose text is no number
C21_Witness ==
    /\ page.kind = "BuildFactoryPage"
    /\ BadCoefficients(page) # {}
    /\ ~page.solution.ok
    /\ page.solution.error = "Invalid number \"x\" in optimization"

\* ------------------------------------------------------------------------
\* C22: Edit of a rule, and Add after it
\* ------------------------------------------------------------------------

\* a sequence without its element at position k, the others in their order
Without(s, k) ==
    [j \in 1 .. Len(s) - 1 |-> IF j < k THEN s[j] ELSE s[j + 1]]

\* how often e occurs in s
Occurrences(s, e) == Cardinality({j \in 1 .. Len(s) : s[j] = e})

\* the rule list at position i lost its rule at position k to its builder
EditedAt(i, k) ==
    LET before == page.rule_lists[i]
        after == page'.rule_lists[i]
        rule == before.rules[k]
        added == build(after.builder)
    IN  /\ page' = [page EXCEPT !.rule_lists[i] = after]
        /\ after.id = before.id
        /\ after.rules = Without(before.rules, k)
        /\ after.builder.open
        /\ after.builder.selected_variable = rule.variable
        /\ after.builder.constraint.kind = rule.constraint.kind
        /\ rule.constraint.kind # "Unconstrained"
            => ParseF64(after.builder.rate) = Some(rule.constraint.rate)
        \* what Add appends to the list as it is now
        /\ added = Some(rule)
        /\ \A e \in {before.rules[j] : j \in 1 .. Len(before.rules)} :
            Occurrences(Append(after.rules, added.value), e)
                = Occurrences(before.rules, e)

\* the rule list at position i gained the rule its builder builds
AddedAt(i) ==
    LET before == page.rule_lists[i]
        after == page'.rule_lists[i]
    IN  /\ page' = [page EXCEPT !.rule_lists[i] = after]
        /\ before.builder.open
        /\ build(before.builder).some
        /\ after = RuleListEntry(before.id,
                                 Append(before.rules, build(before.builder).value),
                                 NoBuilder)

\* C22: a step that keeps the rule lists in their places and after which a
\* rule list holds one rule less (Edit) removed
\* exactly one rule and kept the others in their order, and left the list's
\* rule builder with that rule's variable, constraint kind and a text that
\* reads as its threshold, so that Add on that builder builds the removed
\* rule; such a step after which a list holds one rule more (Add) appended
\* the rule its builder builds.  Add right after Edit therefore gives back the
\* rules the list had, each as often as before.
C22_EditThenAdd ==
    [][ /\ page.kind = "BuildFactoryPage"
        /\ page'.kind = "BuildFactoryPage"
        /\ Len(page'.rule_lists) = Len(page.rule_lists)
        /\ \A i \in 1 .. Len(page.rule_lists) :
            page'.rule_lists[i].id = page.rule_lists[i].id
        => \A i \in 1 .. Len(page.rule_lists) :
            /\ Len(page'.rule_lists[i].rules) < Len(page.rule_lists[i].rules)
                => \E k \in 1 .. Len(page.rule_lists[i].rules) : EditedAt(i, k)
            /\ Len(page'.rule_lists[i].rules) > Len(page.rule_lists[i].rules)
                => AddedAt(i)
      ]_vars

\* Edit took the rule with the infinite threshold out of a list of three
C22_Witness ==
    /\ page.kind = "BuildFactoryPage"
    /\ Len(page.rule_lists) = 1
    /\ Len(page.rule_lists[1].rules) = 2
    /\ page.rule_lists[1].builder.open
    /\ page.rule_lists[1].builder.rate = "inf"
    /\ page.rule_lists[1].builder.constraint.kind = "Less"

\* ------------------------------------------------------------------------
\* C23: the transitions between pages
\* ------------------------------------------------------------------------

\* the worlds load_world returns Ok for, over the paths
LoadableWorlds ==
    {load_world(files[path]).value :
        path \in {q \in DOMAIN files : load_world(files[q]).ok}}

\* the Factories load_factory returns Ok for under w, over the paths
LoadableFactories(w) ==
    {load_factory(w, files[path]).value :
        path \in {q \in DOMAIN files : load_factory(w, files[q]).ok}}

\* C23: a step changes the kind of the page only from LandingPage to a new
\* LoadedPage on a world load_world returned Ok for, from LoadedPage to a
\* new LandingPage, from LoadedPage to a BuildFactoryPage, from LoadedPage
\* to an EditFactoryPage on the page's world and a Factory load_factory
\* returned Ok for, and from a BuildFactoryPage whose solution is Ok to an
\* EditFactoryPage on the page's world and the solved Factory; an
\* EditFactoryPage stays, with its world and its Factory.
C23_PageFlow ==
    [][ /\ page.kind = "LandingPage"
            => \/ page'.kind = "LandingPage"
               \/ /\ page'.kind = "LoadedPage"
                  /\ \E w \in LoadableWorlds : page' = NewLoadedPage(w)
        /\ page.kind = "LoadedPage"
            => \/ page'.kind = "LoadedPage" /\ page'.world = page.world
               \/ page' = NewLandingPage
               \/ page'.kind = "BuildFactoryPage"
               \/ /\ page'.kind = "EditFactoryPage"
                  /\ page'.world = page.world
                  /\ page'.factory \in LoadableFactories(page.world)
        /\ page.kind = "BuildFactoryPage"
            => \/ page'.kind = "BuildFactoryPage" /\ page'.world = page.world
               \/ /\ page'.kind = "EditFactoryPage"
                  /\ page.solution.ok
                  /\ page'.world = page.world
                  /\ page'.factory = page.solution.factory
        /\ page.kind = "EditFactoryPage" => page' = page
      ]_vars

\* an EditFactoryPage on a solved Factory: no file was there that
\* load_factory returns Ok for
C23_Witness ==
    /\ page.kind = "EditFactoryPage"
    /\ page.factory # <<>>
    /\ \A path \in DOMAIN files : ~load_factory(page.world, files[path]).ok

\* ------------------------------------------------------------------------
\* C24: the placeholder page
\* ------------------------------------------------------------------------

\* the pages whose show returns a page
RealPages == {"LandingPage", "LoadedPage", "BuildFactoryPage", "EditFactoryPage"}

\* C24: a step of the application is one SolverApp::update, which shows the
\* page it holds and keeps the page show returned.  Before and after every
\* update SolverApp.page is a LandingPage, LoadedPage, BuildFactoryPage or
\* EditFactoryPage and not DefaultPage, so the page an update shows is never
\* DefaultPage and its show, which panics, is never called.
C24_NoDefaultPage ==
    /\ page # DefaultPage
    /\ page.kind \in RealPages

\* several updates went by: a world was loaded, a BuildFactoryPage was
\* opened on it and Solve gave it a Factory
C24_Witness ==
    /\ page.kind = "BuildFactoryPage"
    /\ page.solution.ok
    /\ Len(page.world.recipes) = 2

\* ------------------------------------------------------------------------
\* C25: the rule lists of a BuildFactoryPage and their ui ids
\* ------------------------------------------------------------------------

\* s with its elements at positions i and i + 1 exchanged
NeighbourSwap(s, i) ==
    [j \in 1 .. Len(s) |->
        IF j = i THEN s[i + 1] ELSE IF j = i + 1 THEN s[i] ELSE s[j]]

\* the ui ids are pairwise distinct and below the incrementor
DistinctIds(p) ==
    /\ \A i, j \in 1 .. Len(p.rule_lists) :
        i # j => p.rule_lists[i].id # p.rule_lists[j].id
    /\ \A i \in 1 .. Len(p.rule_lists) :
        p.rule_lists[i].id < p.rule_list_id_incrementor

\* what Up and Down of each list of the page give
UpAndDown(p) ==
    LET n == Len(p.rule_lists)
    IN  \A index \in 0 .. n - 1 :
            /\ MoveUp(p.rule_lists, index) =
                    IF index = 0 THEN p.rule_lists
                    ELSE NeighbourSwap(p.rule_lists, index)
            /\ MoveDown(p.rule_lists, index) =
                    IF index = n - 1 THEN p.rule_lists
                    ELSE NeighbourSwap(p.rule_lists, index + 1)

\* the rule lists Load List can add: what load_rule_list returns Ok for
LoadableRuleLists(p) ==
    {load_rule_list(p.world, files[path]).value :
        path \in {q \in DOMAIN files : load_rule_list(p.world, files[q]).ok}}

\* a step of a BuildFactoryPage adds one list at the end, removes one list,
\* or keeps the lists
ListsStep ==
    LET before == page.rule_lists
        after == page'.rule_lists
        next_id == page.rule_list_id_incrementor
    IN  \/ /\ Len(after) = Len(before) + 1
           /\ SubSeq(after, 1, Len(before)) = before
           /\ after[Len(after)].id = next_id
           /\ ~after[Len(after)].builder.open
           /\ \/ after[Len(after)].rules = <<>>
              \/ after[Len(after)].rules \in LoadableRuleLists(page)
           /\ page'.rule_list_id_incrementor = next_id + 1
        \/ /\ Len(after) = Len(before) - 1
           /\ \E k \in 1 .. Len(before) : after = Without(before, k)
           /\ page'.rule_list_id_incrementor = next_id
        \/ /\ Len(after) = Len(before)
           /\ page'.rule_list_id_incrementor = next_id
           /\ \/ \A i \in 1 .. Len(before) : after[i].id = before[i].id
              \/ \E i \in 1 .. Len(before) - 1 : after = NeighbourSwap(before, i)

\* C25: on every BuildFactoryPage the application reaches, the ui ids of
\* the rule lists are pairwise distinct and smaller than
\* rule_list_id_incrementor, Up on the first list and Down on the last list
\* give the lists as they are, and any other Up or Down exchanges the list
\* with its neighbour and keeps all lists.  A step adds a list only at the
\* end, with the incrementor as its id, no builder and no rules or the
\* rules load_rule_list returned, and increments the incrementor; it
\* removes at most one list and keeps the others in order; and a step that
\* keeps the number of lists leaves them in place or exchanges two
\* neighbours.
C25_RuleLists ==
    /\ [](page.kind = "BuildFactoryPage" => DistinctIds(page) /\ UpAndDown(page))
    /\ [][page.kind = "BuildFactoryPage" /\ page'.kind = "BuildFactoryPage"
            => ListsStep]_vars

\* three lists have been added and Up or Down has taken them out of the
\* order in which they were added
C25_Witness ==
    /\ page.kind = "BuildFactoryPage"
    /\ Len(page.rule_lists) = 3
    /\ page.rule_lists[1].id > page.rule_lists[2].id
    /\ page.rule_list_id_incrementor = 3

\* ------------------------------------------------------------------------
\* C26: the recipe selection of a LoadedPage and the World it filters
\* ------------------------------------------------------------------------

\* the positions of the recipes whose flag is set
IncludedPositions(loaded) ==
    {k \in 1 .. Len(loaded.world.recipes) : loaded.included[k]}

\* the included recipes, the n-th being the one with n included positions
\* up to its own
KeptRecipes(loaded) ==
    LET kept == IncludedPositions(loaded)
    IN  [n \in 1 .. Cardinality(kept) |->
            loaded.world.recipes[
                CHOOSE k \in kept : Cardinality({j \in kept : j <= k}) = n]]

\* one flag per recipe, and filter_world keeps the resources, the included
\* recipes in their order and rates that name resources of the result
FilterKeepsCatalog(loaded) ==
    /\ Len(loaded.included) = Len(loaded.world.recipes)
    /\ filter_world(loaded).resources = loaded.world.resources
    /\ filter_world(loaded).recipes = KeptRecipes(loaded)
    /\ RatesInCatalog(filter_world(loaded))

\* C26: on every LoadedPage the application reaches, after any Add all,
\* Remove all, tag Add, tag Remove and checkbox clicks, included has one
\* flag per recipe and filter_world returns a World with the resources
\* unchanged and exactly the included recipes in their original order, so
\* every ResourceId in its rates is in range; Build hands that World to the
\* BuildFactoryPage.
C26_FilterKeepsCatalog ==
    /\ [](page.kind = "LoadedPage" => FilterKeepsCatalog(page))
    /\ [][page.kind = "LoadedPage" /\ page'.kind = "BuildFactoryPage"
            => page'.world = World(page.world.resources, KeptRecipes(page))]_vars

\* a selection that keeps the second recipe and not the first
C26_Witness ==
    /\ page.kind = "LoadedPage"
    /\ Len(page.world.recipes) = 2
    /\ ~page.included[1]
    /\ page.included[2]
    /\ Len(filter_world(page).recipes) = 1

====
